---- MODULE Spec2Model ----
(***************************************************************************)
(* Model of the translation / summarization service (src/unnamed/part_000).*)
(* JavaScript strings are TLA+ strings; a character is a string of length  *)
(* one.  Regular expressions are written out as match-length operators     *)
(* (0 = no match at that index) and applied left to right, greedily and    *)
(* without overlap, as String.prototype.replace with the g flag does.      *)
(* The module's character set is Latin-1: of the class [üğışöçÜĞİŞÖÇ] only  *)
(* ü ö ç Ü Ö Ç can occur in a model string.                                *)
(***************************************************************************)
EXTENDS Integers, Sequences, FiniteSets, TLC

(* ------------------------------------------------------------------ *)
(* Strings                                                            *)
(* ------------------------------------------------------------------ *)

Ch(s, i) == IF i >= 1 /\ i <= Len(s) THEN SubSeq(s, i, i) ELSE ""

Sub(s, i, j) == IF j < i THEN "" ELSE SubSeq(s, i, j)

From(s, i) == Sub(s, i, Len(s))

UpperChars == "ABCDEFGHIJKLMNOPQRSTUVWXYZÜÖÇ"

LowerChars == "abcdefghijklmnopqrstuvwxyzüöç"

DigitChars == "0123456789"

CharsOf(set) == { Ch(set, k) : k \in 1..Len(set) }

AsciiUpper == CharsOf(Sub(UpperChars, 1, 26))

AsciiLower == CharsOf(Sub(LowerChars, 1, 26))

Digits == CharsOf(DigitChars)

SpaceChars == {" ", "\t", "\n", "\r"}

LowerOf == [c \in CharsOf(UpperChars) |->
              Ch(LowerChars, CHOOSE k \in 1..Len(UpperChars) : Ch(UpperChars, k) = c)]

IsSpace(c) == c \in SpaceChars

IsAsciiUpper(c) == c \in AsciiUpper

IsAsciiLower(c) == c \in AsciiLower

IsAsciiLetter(c) == c \in AsciiUpper \/ c \in AsciiLower

IsDigit(c) == c \in Digits

IsWordChar(c) == IsAsciiLetter(c) \/ IsDigit(c) \/ c = "_"

IsNonSpace(c) == c # "" /\ c \notin SpaceChars

LowerCh(c) == IF c \in DOMAIN LowerOf THEN LowerOf[c] ELSE c

RECURSIVE toLowerCase(_)
toLowerCase(s) ==
  IF Len(s) <= 1 THEN LowerCh(s)
  ELSE toLowerCase(Sub(s, 1, Len(s) \div 2)) \o toLowerCase(From(s, Len(s) \div 2 + 1))

\* first index >= i whose character does not satisfy P (Len(s)+1 if none)
RunEnd(s, i, P(_)) ==
  CHOOSE j \in i..(Len(s) + 1) :
    /\ j = Len(s) + 1 \/ ~P(Ch(s, j))
    /\ \A k \in i..(j - 1) : P(Ch(s, k))

StartsAt(s, i, p) == i >= 1 /\ i + Len(p) - 1 <= Len(s) /\ Sub(s, i, i + Len(p) - 1) = p

\* p is given in lower case; the comparison is that of the i flag
StartsAtCI(s, i, p) ==
  /\ i >= 1
  /\ i + Len(p) - 1 <= Len(s)
  /\ LowerCh(Ch(s, i)) = Ch(p, 1)
  /\ toLowerCase(Sub(s, i, i + Len(p) - 1)) = p

\* index of the first occurrence of character c at or after i, 0 if none
IndexFrom(s, c, i) ==
  IF \E k \in i..Len(s) : Ch(s, k) = c
    THEN CHOOSE k \in i..Len(s) : Ch(s, k) = c /\ \A m \in i..(k - 1) : Ch(s, m) # c
    ELSE 0

IndexOfStr(s, p, i) ==
  IF \E k \in i..Len(s) : StartsAt(s, k, p)
    THEN CHOOSE k \in i..Len(s) : StartsAt(s, k, p) /\ \A m \in i..(k - 1) : ~StartsAt(s, m, p)
    ELSE 0

\* String.prototype.replace(/re/g, rep): ml[i] is the length of the match
\* of re that starts at index i (0 if there is none); the scan resumes
\* after each match
RECURSIVE ReplaceFrom(_, _, _, _)
ReplaceFrom(s, ml, rep, i) ==
  IF \E j \in i..Len(s) : ml[j] > 0
    THEN LET j == CHOOSE j \in i..Len(s) : ml[j] > 0 /\ \A m \in i..(j - 1) : ml[m] = 0
         IN Sub(s, i, j - 1) \o rep \o ReplaceFrom(s, ml, rep, j + ml[j])
    ELSE From(s, i)

ReplaceAll(s, M(_, _), rep) ==
  ReplaceFrom(s, [i \in 1..Len(s) |-> M(s, i)], rep, 1)

trim(s) ==
  IF \A k \in 1..Len(s) : IsSpace(Ch(s, k)) THEN ""
  ELSE LET a == RunEnd(s, 1, IsSpace)
           b == CHOOSE j \in 1..Len(s) :
                  ~IsSpace(Ch(s, j)) /\ \A k \in (j + 1)..Len(s) : IsSpace(Ch(s, k))
       IN Sub(s, a, b)

\* text.split('|')[0]
splitPipeHead(s) ==
  LET p == IndexFrom(s, "|", 1) IN IF p = 0 THEN s ELSE Sub(s, 1, p - 1)

(* ------------------------------------------------------------------ *)
(* stripHtml: the regular expressions of lines 69-89                  *)
(* ------------------------------------------------------------------ *)

\* /https?:\/\/[^\s]+/
MUrl(s, i) ==
  LET h == IF StartsAt(s, i, "https://") THEN 8
           ELSE IF StartsAt(s, i, "http://") THEN 7 ELSE 0
      e == RunEnd(s, i + h, IsNonSpace)
  IN IF h > 0 /\ e > i + h THEN e - i ELSE 0

\* /www\.[^\s]+/
MWww(s, i) ==
  LET e == RunEnd(s, i + 4, IsNonSpace)
  IN IF StartsAt(s, i, "www.") /\ e > i + 4 THEN e - i ELSE 0

\* /t\.co\/[^\s]+/
MTco(s, i) ==
  LET e == RunEnd(s, i + 5, IsNonSpace)
  IN IF StartsAt(s, i, "t.co/") /\ e > i + 5 THEN e - i ELSE 0

SourceNames == {"twitter", "web", "facebook", "instagram", "reddit", "telegram"}

\* /source=(twitter|web|facebook|instagram|reddit|telegram)[^\s]*/i
MSource(s, i) ==
  IF StartsAtCI(s, i, "source=") /\ \E n \in SourceNames : StartsAtCI(s, i + 7, n)
    THEN RunEnd(s, i + 7, IsNonSpace) - i
    ELSE 0

IsParamNameChar(c) == IsAsciiLetter(c) \/ c = "_"

IsParamValueChar(c) == c # "" /\ c \notin SpaceChars /\ c # "&"

\* /utm_[a-z_]+=[^\s&]*/i
MUtm(s, i) ==
  LET n == RunEnd(s, i + 4, IsParamNameChar)
  IN IF StartsAtCI(s, i, "utm_") /\ n > i + 4 /\ Ch(s, n) = "="
       THEN RunEnd(s, n + 1, IsParamValueChar) - i
       ELSE 0

\* /ref=[^\s&]*/i
MRef(s, i) ==
  IF StartsAtCI(s, i, "ref=") THEN RunEnd(s, i + 4, IsParamValueChar) - i ELSE 0

\* [a-z_]+=\w+ at index i (case-insensitive): its length, 0 if no match
KeyValueLen(s, i) ==
  LET n == RunEnd(s, i, IsParamNameChar)
      v == RunEnd(s, n + 1, IsWordChar)
  IN IF n > i /\ Ch(s, n) = "=" /\ v > n + 1 THEN v - i ELSE 0

\* (&[a-z_]+=\w+)* at index i
RECURSIVE MoreParamsLen(_, _)
MoreParamsLen(s, i) ==
  IF Ch(s, i) = "&" /\ KeyValueLen(s, i + 1) > 0
    THEN 1 + KeyValueLen(s, i + 1) + MoreParamsLen(s, i + 1 + KeyValueLen(s, i + 1))
    ELSE 0

\* /\?[a-z_]+=\w+(&[a-z_]+=\w+)*/i
MQuery(s, i) ==
  IF Ch(s, i) = "?" /\ KeyValueLen(s, i + 1) > 0
    THEN 1 + KeyValueLen(s, i + 1) + MoreParamsLen(s, i + 1 + KeyValueLen(s, i + 1))
    ELSE 0

MRsvp(s, i) == IF StartsAtCI(s, i, "rsvp:") THEN 5 ELSE 0

MReadMore(s, i) == IF StartsAtCI(s, i, "read more:") THEN 10 ELSE 0

MClickHere(s, i) == IF StartsAtCI(s, i, "click here:") THEN 11 ELSE 0

\* /\[\.\.\.\]/ (the pattern /\[…\]/ of line 83 needs U+2026, which no
\* string of this module contains)
MBracketDots(s, i) == IF StartsAt(s, i, "[...]") THEN 5 ELSE 0

\* /\s+/
MSpaces(s, i) == IF IsSpace(Ch(s, i)) THEN RunEnd(s, i, IsSpace) - i ELSE 0

\* /\n\s*\n/
MBlankLines(s, i) ==
  LET e == RunEnd(s, i + 1, IsSpace)
      \* \s* is greedy and gives back characters until a \n follows
      last == IF \E k \in (i + 1)..(e - 1) : Ch(s, k) = "\n"
                THEN CHOOSE k \in (i + 1)..(e - 1) :
                       Ch(s, k) = "\n" /\ \A m \in (k + 1)..(e - 1) : Ch(s, m) # "\n"
                ELSE 0
  IN IF Ch(s, i) = "\n" /\ last > 0 THEN last - i + 1 ELSE 0

\* /<[^>]*>/
MTag(s, i) ==
  LET e == IndexFrom(s, ">", i + 1)
  IN IF Ch(s, i) = "<" /\ e > 0 THEN e - i + 1 ELSE 0

(* ------------------------------------------------------------------ *)
(* cheerio.load(html) / $('script, style').remove() / $('body').text() *)
(* The parser is the HTML5 tokenizer restricted to: start and end tags,*)
(* comments and declarations, script/style raw text, and the named     *)
(* character references lt, gt, amp, quot (with or without ';').       *)
(* ------------------------------------------------------------------ *)

EntityNames == {"lt", "gt", "amp", "quot"}

EntityChar(n) ==
  CASE n = "lt" -> "<" [] n = "gt" -> ">" [] n = "amp" -> "&" [] OTHER -> "\""

IsTagNameChar(c) == c # "" /\ c \notin SpaceChars /\ c # ">" /\ c # "/"

\* index after the '>' that closes a tag opened before i; Len(s)+1 at EOF
AfterGt(s, i) == LET e == IndexFrom(s, ">", i) IN IF e = 0 THEN Len(s) + 1 ELSE e + 1

\* index after the end tag </name ...> that closes a raw-text element
AfterRawText(s, i, name) ==
  IF \E k \in i..Len(s) : StartsAtCI(s, k, "</" \o name)
    THEN AfterGt(s, CHOOSE k \in i..Len(s) :
                      /\ StartsAtCI(s, k, "</" \o name)
                      /\ \A m \in i..(k - 1) : ~StartsAtCI(s, m, "</" \o name))
    ELSE Len(s) + 1

IsMarkupStart(c) == c = "<" \/ c = "&" \/ c = ""

RECURSIVE HtmlText(_, _)
HtmlText(s, i) ==
  IF i > Len(s) THEN ""
  ELSE IF Ch(s, i) = "<" /\ IsAsciiLetter(Ch(s, i + 1)) THEN
    LET name == toLowerCase(Sub(s, i + 1, RunEnd(s, i + 1, IsTagNameChar) - 1))
    IN IF name \in {"script", "style"}
         THEN HtmlText(s, AfterRawText(s, AfterGt(s, i), name))
         ELSE HtmlText(s, AfterGt(s, i))
  ELSE IF StartsAt(s, i, "<!--") THEN
    LET e == IndexOfStr(s, "-->", i + 4)
    IN IF e = 0 THEN "" ELSE HtmlText(s, e + 3)
  ELSE IF Ch(s, i) = "<" /\ Ch(s, i + 1) \in {"/", "!", "?"} THEN
    HtmlText(s, AfterGt(s, i))
  ELSE IF Ch(s, i) = "&" /\ \E n \in EntityNames : StartsAt(s, i + 1, n) THEN
    LET n == CHOOSE n \in EntityNames : StartsAt(s, i + 1, n)
        e == i + 1 + Len(n)
    IN EntityChar(n) \o HtmlText(s, IF Ch(s, e) = ";" THEN e + 1 ELSE e)
  ELSE \* character data up to the next '<' or '&'
    LET e == RunEnd(s, i + 1, LAMBDA c : ~IsMarkupStart(c))
    IN Sub(s, i, e - 1) \o HtmlText(s, e)

\* $('body').text() || $.text(): white space before the first token of the
\* document is not part of the body
cheerioText(html) == HtmlText(html, RunEnd(html, 1, IsSpace))

(* ------------------------------------------------------------------ *)
(* stripHtml                                                          *)
(* ------------------------------------------------------------------ *)

MinCleanLength == 10

\* a || b for two strings
OrElse(a, b) == IF a # "" THEN a ELSE b

\* lines 69-71: the URL patterns
removeUrls(t) == ReplaceAll(ReplaceAll(ReplaceAll(t, MUrl, ""), MWww, ""), MTco, "")

\* lines 74-77: the tracking parameters
removeParams(t) ==
  ReplaceAll(ReplaceAll(ReplaceAll(ReplaceAll(t, MSource, ""), MUtm, ""), MRef, ""),
             MQuery, "")

\* lines 80-84: the boilerplate phrases
removePhrases(t) ==
  ReplaceAll(ReplaceAll(ReplaceAll(ReplaceAll(t, MRsvp, ""), MReadMore, ""),
                        MClickHere, ""),
             MBracketDots, "")

\* lines 87-90: white space
squeeze(t) == trim(ReplaceAll(ReplaceAll(t, MSpaces, " "), MBlankLines, "\n"))

\* lines 66-90, applied to the text cheerio extracted
cleanExtracted(t0) ==
  squeeze(removePhrases(removeParams(removeUrls(OrElse(splitPipeHead(t0), t0)))))

\* lines 93-95: a text of fewer than MinCleanLength characters is dropped
dropShort(text) == IF Len(text) < MinCleanLength THEN "" ELSE text

\* the catch block, lines 100-107: a || b binds looser than the method
\* chain, so the URL and white-space passes belong to the right operand
stripHtmlFallback(html) ==
  OrElse(splitPipeHead(ReplaceAll(html, MTag, " ")),
         trim(ReplaceAll(ReplaceAll(html, MUrl, ""), MSpaces, " ")))

\* throws: cheerio.load raised for this document
stripHtmlWith(html, throws) ==
  IF throws THEN stripHtmlFallback(html)
  ELSE dropShort(cleanExtracted(cheerioText(html)))

(* ------------------------------------------------------------------ *)
(* JavaScript values and JSON.parse                                   *)
(* A value is [t, s, o]: t its type, s the text of a string, number   *)
(* or boolean, o the elements of an array or the <<key, value>>       *)
(* members of an object.  The grammar is JSON's without exponents and *)
(* \u escapes.                                                        *)
(* ------------------------------------------------------------------ *)

JV(t, s, o) == [t |-> t, s |-> s, o |-> o]

JUndefined == JV("undefined", "", <<>>)

JNull == JV("null", "", <<>>)

JStr(s) == JV("string", s, <<>>)

JFail(i) == [ok |-> FALSE, v |-> JUndefined, next |-> i]

JOk(v, i) == [ok |-> TRUE, v |-> v, next |-> i]

IsJsonSpace(c) == c \in SpaceChars

UnescapeChar(c) ==
  CASE c = "n" -> "\n" [] c = "t" -> "\t" [] c = "r" -> "\r" [] OTHER -> c

IsPlainStringChar(c) == c # "" /\ c \notin {"\"", "\\", "\n", "\t", "\r"}

RECURSIVE JsonStringBody(_, _)
RECURSIVE JsonValue(_, _)
RECURSIVE JsonElements(_, _, _)
RECURSIVE JsonMembers(_, _, _)

\* the string whose plain run s[i..e-1] has been read: r is the rest of
\* the string after the escape at e
JsonStringJoin(s, i, e, r) ==
  IF r.ok THEN JOk(JStr(Sub(s, i, e - 1) \o UnescapeChar(Ch(s, e + 1)) \o r.v.s), r.next)
  ELSE r

JsonStringAt(s, i, e) ==
  IF Ch(s, e) = "\"" THEN JOk(JStr(Sub(s, i, e - 1)), e + 1)
  ELSE IF Ch(s, e) = "\\" /\ Ch(s, e + 1) \in {"\"", "\\", "/", "n", "t", "r"}
    THEN JsonStringJoin(s, i, e, JsonStringBody(s, e + 2))
  ELSE JFail(e)

\* i is the index after the opening quote
JsonStringBody(s, i) == JsonStringAt(s, i, RunEnd(s, i, IsPlainStringChar))

\* the number that starts at i, with integer part s[a..b-1] and fraction
\* s[b+1..c-1] when s[b] is the point
JsonNumberAt(s, i, a, b, c) ==
  IF b = a \/ (Ch(s, b) = "." /\ c = b + 1) THEN JFail(i)
  ELSE JOk(JV("number", Sub(s, i, c - 1), <<>>), c)

JsonFraction(s, i, a, b) ==
  JsonNumberAt(s, i, a, b, IF Ch(s, b) = "." THEN RunEnd(s, b + 1, IsDigit) ELSE b)

JsonInteger(s, i, a) ==
  JsonFraction(s, i, a, IF Ch(s, a) = "0" THEN a + 1 ELSE RunEnd(s, a, IsDigit))

\* -?(0|[1-9][0-9]*)(\.[0-9]+)? at index i
JsonNumber(s, i) == JsonInteger(s, i, IF Ch(s, i) = "-" THEN i + 1 ELSE i)

\* after an element: acc the elements read, j the index of the next token
JsonElementSep(s, j, acc) ==
  IF Ch(s, j) = "," THEN JsonElements(s, j + 1, acc)
  ELSE IF Ch(s, j) = "]" THEN JOk(JV("array", "", acc), j + 1)
  ELSE JFail(j)

JsonElementRead(s, r, acc) ==
  IF ~r.ok THEN r
  ELSE JsonElementSep(s, RunEnd(s, r.next, IsJsonSpace), Append(acc, r.v))

\* after '[' or ',': the remaining elements of an array, acc those read
JsonElements(s, i, acc) == JsonElementRead(s, JsonValue(s, i), acc)

\* after a member: acc the members read, j the index of the next token
JsonMemberSep(s, j, acc) ==
  IF Ch(s, j) = "," THEN JsonMembers(s, j + 1, acc)
  ELSE IF Ch(s, j) = "}" THEN JOk(JV("object", "", acc), j + 1)
  ELSE JFail(j)

JsonMemberRead(s, key, r, acc) ==
  IF ~r.ok THEN r
  ELSE JsonMemberSep(s, RunEnd(s, r.next, IsJsonSpace), Append(acc, <<key.v.s, r.v>>))

\* the member whose key has been read, c the index of the token after it
JsonMemberColon(s, k, key, c, acc) ==
  IF Ch(s, c) # ":" THEN JFail(k)
  ELSE JsonMemberRead(s, key, JsonValue(s, c + 1), acc)

JsonMemberKey(s, k, key, acc) ==
  IF ~key.ok THEN JFail(k)
  ELSE JsonMemberColon(s, k, key, RunEnd(s, key.next, IsJsonSpace), acc)

JsonMemberAt(s, k, acc) ==
  IF Ch(s, k) = "\"" THEN JsonMemberKey(s, k, JsonStringBody(s, k + 1), acc)
  ELSE JFail(k)

\* after '{' or ',': the remaining members of an object
JsonMembers(s, i, acc) == JsonMemberAt(s, RunEnd(s, i, IsJsonSpace), acc)

\* after '[': j is the index of the next token
JsonArrayAt(s, i, j) ==
  IF Ch(s, j) = "]" THEN JOk(JV("array", "", <<>>), j + 1)
  ELSE JsonElements(s, i + 1, <<>>)

\* after '{': j is the index of the next token
JsonObjectAt(s, i, j) ==
  IF Ch(s, j) = "}" THEN JOk(JV("object", "", <<>>), j + 1)
  ELSE JsonMembers(s, i + 1, <<>>)

\* the value whose first character is at i
JsonValueAt(s, i) ==
  IF Ch(s, i) = "\"" THEN JsonStringBody(s, i + 1)
  ELSE IF Ch(s, i) = "-" \/ IsDigit(Ch(s, i)) THEN JsonNumber(s, i)
  ELSE IF StartsAt(s, i, "null") THEN JOk(JNull, i + 4)
  ELSE IF StartsAt(s, i, "true") THEN JOk(JV("boolean", "true", <<>>), i + 4)
  ELSE IF StartsAt(s, i, "false") THEN JOk(JV("boolean", "false", <<>>), i + 5)
  ELSE IF Ch(s, i) = "[" THEN JsonArrayAt(s, i, RunEnd(s, i + 1, IsJsonSpace))
  ELSE IF Ch(s, i) = "{" THEN JsonObjectAt(s, i, RunEnd(s, i + 1, IsJsonSpace))
  ELSE JFail(i)

JsonValue(s, i0) == JsonValueAt(s, RunEnd(s, i0, IsJsonSpace))

\* the document whose value r has been read
JsonDocument(s, r) ==
  IF r.ok /\ RunEnd(s, r.next, IsJsonSpace) = Len(s) + 1 THEN r ELSE JFail(1)

\* JSON.parse(s): ok = FALSE stands for the SyntaxError it throws
JSONParse(s) == JsonDocument(s, JsonValue(s, 1))

\* v.name for a value v that is neither null nor undefined
GetProp(v, name) ==
  IF v.t = "object" /\ \E k \in 1..Len(v.o) : v.o[k][1] = name
    THEN v.o[CHOOSE k \in 1..Len(v.o) :
               v.o[k][1] = name /\ \A m \in (k + 1)..Len(v.o) : v.o[m][1] # name][2]
    ELSE JUndefined

IsZeroNumber(s) == \A k \in 1..Len(s) : Ch(s, k) \in {"0", "-", "."}

Truthy(v) ==
  CASE v.t \in {"undefined", "null"} -> FALSE
    [] v.t = "boolean" -> v.s = "true"
    [] v.t = "string" -> v.s # ""
    [] v.t = "number" -> ~IsZeroNumber(v.s)
    [] OTHER -> TRUE

\* v.length > n for a truthy value v
LengthGreater(v, n) ==
  CASE v.t = "string" -> Len(v.s) > n
    [] v.t = "array" -> Len(v.o) > n
    [] OTHER -> FALSE

(* ------------------------------------------------------------------ *)
(* The regular expressions of summarizeAndTranslate, lines 293-328    *)
(* ------------------------------------------------------------------ *)

\* A TLA+ string cannot contain the backquote: in every string of this
\* module the character ~ stands for it.
Fence == "~~~"

\* the markdown fence pattern of line 293: Fence, "json" or not, then an
\* optional newline
MFence(s, i) ==
  IF StartsAt(s, i, Fence \o "json") THEN (IF Ch(s, i + 7) = "\n" THEN 8 ELSE 7)
  ELSE IF StartsAt(s, i, Fence) THEN (IF Ch(s, i + 3) = "\n" THEN 4 ELSE 3)
  ELSE 0

stripFences(result) == trim(ReplaceAll(result, MFence, ""))

AuxVerbs == {"is", "are", "was", "were", "has", "have", "will", "would", "could",
             "should", "can", "may", "might", "had", "been", "being"}

\* /\. [A-Z][a-z]+ (is|are|...|being)[^.]*\./
MVerbSentence(s, i) ==
  LET w == RunEnd(s, i + 3, IsAsciiLower)
      d == IndexFrom(s, ".", w + 1)
  IN IF /\ StartsAt(s, i, ". ")
        /\ IsAsciiUpper(Ch(s, i + 2))
        /\ w > i + 3
        /\ Ch(s, w) = " "
        /\ \E v \in AuxVerbs : StartsAt(s, w + 1, v)
        /\ d > 0
       THEN d - i + 1
       ELSE 0

\* /<prefix>[^.]*\./ for a prefix that starts with "\. "
MSentence(s, i, prefix) ==
  LET d == IndexFrom(s, ".", i + Len(prefix))
  IN IF StartsAt(s, i, prefix) /\ d > 0 THEN d - i + 1 ELSE 0

\* the prefixes of lines 303-319, in the order of the replace chain
SentenceStarts ==
  << ". The ", ". This ", ". It ", ". According to ", ". In ", ". On ", ". At ",
     ". For ", ". With ", ". From ", ". By ", ". As ", ". However",
     ". Additionally", ". Furthermore", ". Meanwhile", ". Moreover" >>

RECURSIVE removeSentences(_, _)
removeSentences(s, k) ==
  IF k > Len(SentenceStarts) THEN s
  ELSE removeSentences(
         ReplaceAll(s, LAMBDA t, i : MSentence(t, i, SentenceStarts[k]), "."), k + 1)

TailVerbs == {"is", "are", "was", "were", "has", "have", "had", "been", "being"}

TailPronouns == {"the", "this", "that", "these", "those", "it", "he", "she", "they"}

\* /\s+(w1|w2|...)\s+[a-z][^.]*$/i for the words of set ws
MTailWord(s, i, ws) ==
  LET e == RunEnd(s, i, IsSpace)
  IN IF /\ IsSpace(Ch(s, i))
        /\ \E w \in ws :
             LET f == RunEnd(s, e + Len(w), IsSpace)
             IN /\ StartsAtCI(s, e, w)
                /\ f > e + Len(w)
                /\ IsAsciiLetter(Ch(s, f))
                /\ IndexFrom(s, ".", f + 1) = 0
       THEN Len(s) - i + 1
       ELSE 0

\* /\s+[A-Z][a-z]+\s*$/
MTailCapital(s, i) ==
  LET e == RunEnd(s, i, IsSpace)
      l == RunEnd(s, e + 1, IsAsciiLower)
  IN IF /\ IsSpace(Ch(s, i))
        /\ IsAsciiUpper(Ch(s, e))
        /\ l > e + 1
        /\ RunEnd(s, l, IsSpace) = Len(s) + 1
       THEN Len(s) - i + 1
       ELSE 0

IsDot(c) == c = "."

\* /\.+/
MDots(s, i) == IF Ch(s, i) = "." THEN RunEnd(s, i, IsDot) - i ELSE 0

\* /\.\s*$/
MFinalDot(s, i) ==
  IF Ch(s, i) = "." /\ RunEnd(s, i + 1, IsSpace) = Len(s) + 1 THEN Len(s) - i + 1 ELSE 0

\* lines 300-328: the replace chain applied to cleanSummary
\* lines 302-319: the sentences that start with an English word
removeEnglishSentences(s) == removeSentences(ReplaceAll(s, MVerbSentence, "."), 1)

\* lines 321-324: the English tails
MTailVerb(s, i) == MTailWord(s, i, TailVerbs)

MTailPronoun(s, i) == MTailWord(s, i, TailPronouns)

removeTails(s) ==
  ReplaceAll(ReplaceAll(ReplaceAll(s, MTailVerb, ""), MTailPronoun, ""), MTailCapital, "")

\* lines 325-328: trim, then the periods
tidyDots(s) == ReplaceAll(ReplaceAll(trim(s), MDots, "."), MFinalDot, ".")

scrubSummary(summary) == tidyDots(removeTails(removeEnglishSentences(summary)))

(* ------------------------------------------------------------------ *)
(* State                                                              *)
(* ------------------------------------------------------------------ *)

VARIABLES
  op,            \* the exported function the caller invoked
  cheerioThrows, \* cheerio.load raises in this environment
  text,          \* translateText / translateToTurkish: argument text
  targetLang,    \* translateText: argument targetLang
  texts,         \* translateBatch: argument texts
  title,         \* summarize*: argument title
  body,          \* summarize*: argument text ([present, s])
  pc,            \* position of the invoked function
  calls,         \* the translateToTurkish invocations, by index
  completed,     \* indices of calls in the order they settled
  status,        \* the returned promise: pending, resolved, rejected
  retText,       \* value resolved by translateText / translateToTurkish
  retBatch,      \* value resolved by translateBatch
  retSummary,    \* value resolved by summarize*
  path,          \* the return statement that produced the value
  content,       \* summarize*: local content
  result,        \* summarize*: local result
  retry,         \* the running retryWithBackoff invocation
  waits,         \* delays of the setTimeout waits so far, in order
  sent,          \* user contents of the completions requested by summarize*
  tasks,         \* concurrent retryWithBackoff invocations: their locals
  isMinting,     \* useNFTMint: state isMinting
  isConnecting,  \* useNFTMint: state isConnecting
  account,       \* useNFTMint: state account ("" is null)
  mints,         \* the mintNFT invocations of the hook instance, by index
  connects,      \* the connectWallet invocations of the hook instance
  listeners,     \* accountsChanged listeners registered on window.ethereum
  metadataStore, \* metadata-storage.ts: the Map, a function on its keys
  saved,         \* the arguments of the saveMetadata calls so far, in order
  response       \* the answer of the last GET /api/metadata/[tokenId]

vars == << op, cheerioThrows, text, targetLang, texts, title, body, pc, calls,
           completed, status, retText, retBatch, retSummary, path, content,
           result, retry, waits, sent, tasks, isMinting, isConnecting, account,
           mints, connects, listeners, metadataStore, saved, response >>

\* the state of the translation service
serviceVars == << pc, calls, completed, status, retText, retBatch, retSummary, path,
                 content, result, retry, waits, sent, tasks >>

\* the state of a useNFTMint instance
hookVars == << isMinting, isConnecting, account, mints, connects, listeners >>

\* the state of the metadata store and its route
storeVars == << metadataStore, saved, response >>

inputs == << op, cheerioThrows, text, targetLang, texts, title, body >>

stripHtml(html) == stripHtmlWith(html, cheerioThrows)

\* the test of a blank string without its trim
IsBlankUntrimmed(s) == s = ""

\* !s || s.trim().length === 0
IsBlank(s) == s = "" \/ trim(s) = ""

(* ------------------------------------------------------------------ *)
(* Provider boundary                                                  *)
(* ------------------------------------------------------------------ *)

\* what fetch('/api/proxy') produces: net = FALSE is a rejected fetch,
\* json = FALSE a body that response.json() cannot parse, field the
\* translatedText member of the parsed body
LibreResp(net, httpOk, json, field) ==
  [net |-> net, httpOk |-> httpOk, json |-> json, field |-> field]

\* lines 11-49 with line 40 testing the text as it is
translateWithLibreTranslateUntrimmed(r) ==
  IF ~r.net THEN [ok |-> FALSE, val |-> "", err |-> "TypeError: fetch failed"]
  ELSE IF ~r.httpOk THEN [ok |-> FALSE, val |-> "", err |-> "LibreTranslate API error"]
  ELSE IF ~r.json THEN [ok |-> FALSE, val |-> "", err |-> "SyntaxError"]
  ELSE IF ~Truthy(r.field) THEN [ok |-> FALSE, val |-> "", err |-> "Empty translation result"]
  ELSE IF r.field.t # "string" THEN [ok |-> FALSE, val |-> "", err |-> "TypeError"]
  ELSE [ok |-> TRUE, val |-> r.field.s, err |-> ""]

\* lines 11-49: ok = FALSE is the rethrown error
translateWithLibreTranslate(r) ==
  IF ~r.net THEN [ok |-> FALSE, val |-> "", err |-> "TypeError: fetch failed"]
  ELSE IF ~r.httpOk THEN [ok |-> FALSE, val |-> "", err |-> "LibreTranslate API error"]
  ELSE IF ~r.json THEN [ok |-> FALSE, val |-> "", err |-> "SyntaxError"]
  ELSE IF ~Truthy(r.field) THEN [ok |-> FALSE, val |-> "", err |-> "Empty translation result"]
  ELSE IF r.field.t # "string" THEN [ok |-> FALSE, val |-> "", err |-> "TypeError"]
  ELSE IF Len(trim(r.field.s)) = 0
    THEN [ok |-> FALSE, val |-> "", err |-> "Empty translation result"]
  ELSE [ok |-> TRUE, val |-> r.field.s, err |-> ""]

\* what openaiChatCompletion produces: kind "raise" a rejected call,
\* "nochoices" a response without a choices array, "empty" an empty
\* choices array, "content" a first choice with that message content
ChatResp(kind, c) == [kind |-> kind, content |-> c]

\* response.choices[0]?.message?.content || ''
completionContent(r) ==
  CASE r.kind = "raise" -> [ok |-> FALSE, val |-> "", err |-> "Error: completion failed"]
    [] r.kind = "nochoices" -> [ok |-> FALSE, val |-> "", err |-> "TypeError"]
    [] r.kind = "empty" -> [ok |-> TRUE, val |-> "", err |-> ""]
    [] OTHER -> [ok |-> TRUE, val |-> r.content, err |-> ""]

(* ------------------------------------------------------------------ *)
(* Inputs and provider behaviours explored                            *)
(* ------------------------------------------------------------------ *)

Texts ==
  { "", "   ", "Hi there",
    "Bitcoin hits $50k | via @cryptoNews",
    "<p>Ethereum   upgrade is live</p>",
    " abcdefghij",
    "<b>ok</b> https://t.co/abcdefgh" }

BatchTexts == { "Hi there", "<p>Ethereum   upgrade is live</p>" }

MaxBatch == 2

\* the bodies the fast provider may answer with for the cleaned text c
LibreFields(c) ==
  { JUndefined, JStr(""), JStr("  "), JV("number", "42", <<>>),
    JStr(c), JStr(toLowerCase(c)), JStr("Merhaba"), JStr("onkarakter"),
    JStr("Bitcoin 50 bin dolar oldu") }

LibreResponses(c) ==
  { LibreResp(FALSE, FALSE, FALSE, JUndefined),
    LibreResp(TRUE, FALSE, FALSE, JUndefined),
    LibreResp(TRUE, FALSE, TRUE, JStr("Bitcoin 50 bin dolar oldu")),
    LibreResp(TRUE, TRUE, FALSE, JUndefined) }
    \cup { LibreResp(TRUE, TRUE, TRUE, f) : f \in LibreFields(c) }

BatchLibreResponses(c) ==
  { LibreResp(TRUE, FALSE, FALSE, JUndefined),
    LibreResp(TRUE, TRUE, TRUE, JStr(c)),
    LibreResp(TRUE, TRUE, TRUE, JStr("Bitcoin 50 bin dolar oldu")) }

TranslationContents ==
  { "", "Tamam", "Bitcoin 50 bin dolara ulasti", "<b>Merhaba dunya</b> | ek",
    "https://t.co/abcdefghijk", "<i>onkarakter</i>" }

ChatResponses(cs) ==
  { ChatResp("raise", ""), ChatResp("nochoices", ""), ChatResp("empty", "") }
    \cup { ChatResp("content", c) : c \in cs }

BatchChatResponses ==
  { ChatResp("raise", ""), ChatResp("content", "Tamam"),
    ChatResp("content", "<b>Merhaba dunya</b> | ek") }

\* the title translation of the summarization fallback
TitleLibreResponses(c) ==
  { LibreResp(FALSE, FALSE, FALSE, JUndefined),
    LibreResp(TRUE, TRUE, TRUE, JStr(c)),
    LibreResp(TRUE, TRUE, TRUE, JStr("Bitcoin 50 bin dolar oldu")) }

TitleChatResponses ==
  { ChatResp("raise", ""), ChatResp("content", "https://t.co/abcdefghijk"),
    ChatResp("content", "<i>onkarakter</i>"),
    ChatResp("content", "Bitcoin 50 bin dolara ulasti") }

LibreResponsesFor(o, c) ==
  CASE o = "translateBatch" -> BatchLibreResponses(c)
    [] o = "summarizeAndTranslate" -> TitleLibreResponses(c)
    [] OTHER -> LibreResponses(c)

ChatResponsesFor(o) ==
  CASE o = "translateBatch" -> BatchChatResponses
    [] o = "summarizeAndTranslate" -> TitleChatResponses
    [] OTHER -> ChatResponses(TranslationContents)

\* 2048 characters of filler
Pad16 == "xxxxxxxxxxxxxxxx"

Pad128 == Pad16 \o Pad16 \o Pad16 \o Pad16 \o Pad16 \o Pad16 \o Pad16 \o Pad16

Pad2048 ==
  Pad128 \o Pad128 \o Pad128 \o Pad128 \o Pad128 \o Pad128 \o Pad128 \o Pad128 \o
  Pad128 \o Pad128 \o Pad128 \o Pad128 \o Pad128 \o Pad128 \o Pad128 \o Pad128

Body(s) == [present |-> TRUE, s |-> s]

Absent == [present |-> FALSE, s |-> ""]

\* the bodies make the content of title "ETH surges" 1999, 2000 and 2001
\* characters long
SummaryInputs ==
  { [title |-> "", body |-> Absent],
    [title |-> "", body |-> Body("   ")],
    [title |-> "ETH surges", body |-> Absent],
    [title |-> "ETH surges", body |-> Body("")],
    [title |-> "ETH surges", body |-> Body("Prices moved higher.")],
    [title |-> "ETH surges", body |-> Body(Sub(Pad2048, 1, 1987))],
    [title |-> "ETH surges", body |-> Body(Sub(Pad2048, 1, 1988))],
    [title |-> "ETH surges", body |-> Body(Sub(Pad2048, 1, 1989))],
    [title |-> "Bitcoin price rally Today", body |-> Absent],
    [title |-> " abcdefghij", body |-> Absent],
    [title |-> "ETH up", body |-> Absent],
    [title |-> "Döviz", body |-> Absent],
    [title |-> "<b>Bitcoin ETF approved</b>", body |-> Body("Prices moved higher.")] }

SummaryContents ==
  { "{\"summary\":\"ok\",\"sentiment\":\"positive\"}",
    "{\"summary\":\"Bitcoin yeni zirve yapti. The price rose again.\",\"sentiment\":\"positive\"}",
    "{\"summary\":\"Artti. The price went up.\",\"sentiment\":\"negative\"}",
    "~~~json\n{\"summary\": \"ETF onayi piyasayi hareketlendirdi.\", \"sentiment\": \"negative\"}\n~~~",
    "{\"summary\":12345,\"sentiment\":\"positive\"}",
    "{\"summary\":[1,2,3,4,5,6,7,8,9,10,11],\"sentiment\":\"negative\"}",
    "{\"sentiment\":\"Positive!\"}",
    "{\"summary\":\"Piyasalar sakin seyrediyor.\",\"sentiment\":5}",
    "null",
    "Bitcoin yükseldi, piyasa olumlu",
    "~~~\nhata\n~~~",
    "hata" }

SummaryResponses ==
  { ChatResp("raise", ""), ChatResp("nochoices", ""), ChatResp("empty", "") }
    \cup { ChatResp("content", c) : c \in SummaryContents }

(* ------------------------------------------------------------------ *)
(* translateToTurkish, lines 126-184                                  *)
(* ------------------------------------------------------------------ *)

\* an invocation: pc is the await it is suspended at, libre and openai
\* the responses its provider calls received, line the return statement
NewCall(t) ==
  [text |-> t, pc |-> "start", cleanText |-> "", libre |-> <<>>, openai |-> <<>>,
   result |-> "", rejected |-> FALSE, line |-> 0]

\* the catch clause that receives an exception raised at a site of
\* translateToTurkish ("none": the exception leaves the function)
TranslateHandlerUncaught(site) ==
  CASE site = "libre" -> "catch149"
    [] OTHER -> "none"

TranslateHandler(site) ==
  CASE site = "libre" -> "catch149"
    [] site = "openai" -> "catch174"
    [] OTHER -> "catch180"

MinTranslationLength == 10

\* lines 144-146 comparing the two texts as they are
libreAcceptedCaseSensitive(libreTranslation, cleanText) ==
  /\ libreTranslation # ""
  /\ libreTranslation # cleanText
  /\ Len(libreTranslation) > MinTranslationLength

\* lines 144-146
libreAccepted(libreTranslation, cleanText) ==
  /\ libreTranslation # ""
  /\ toLowerCase(libreTranslation) # toLowerCase(cleanText)
  /\ Len(libreTranslation) > MinTranslationLength

\* line 171
openaiAccepted(translation) ==
  translation # "" /\ Len(translation) > MinTranslationLength

\* line 179: the value returned when neither provider gave a translation
fallbackTextRaw(t, cleanText) == t

fallbackText(t, cleanText) == cleanText

\* the invocation c after an exception raised at site, with a second
\* call of the fast provider after its first failure
ThrownRetried(c, site) ==
  CASE TranslateHandler(site) = "catch149" ->
         [c EXCEPT !.pc = IF Len(c.libre) < 2 THEN "libre" ELSE "openai"]
    [] TranslateHandler(site) = "catch174" ->
         [c EXCEPT !.pc = "done", !.result = fallbackText(c.text, c.cleanText),
                   !.line = 179]
    [] TranslateHandler(site) = "catch180" ->
         [c EXCEPT !.pc = "done", !.result = stripHtml(c.text), !.line = 182]
    [] OTHER -> [c EXCEPT !.pc = "done", !.rejected = TRUE]

\* the invocation c after an exception raised at site
Thrown(c, site) ==
  CASE TranslateHandler(site) = "catch149" -> [c EXCEPT !.pc = "openai"]
    [] TranslateHandler(site) = "catch174" ->
         [c EXCEPT !.pc = "done", !.result = fallbackText(c.text, c.cleanText),
                   !.line = 179]
    [] TranslateHandler(site) = "catch180" ->
         [c EXCEPT !.pc = "done", !.result = stripHtml(c.text), !.line = 182]
    [] OTHER -> [c EXCEPT !.pc = "done", !.rejected = TRUE]

\* one invocation writes only its own locals
SettleShared(k, c) ==
  /\ calls' = [j \in 1..Len(calls) |->
                 IF j = k THEN c ELSE [calls[j] EXCEPT !.cleanText = c.cleanText]]
  /\ completed' = IF c.pc = "done" THEN Append(completed, k) ELSE completed

Settle(k, c) ==
  /\ calls' = [calls EXCEPT ![k] = c]
  /\ completed' = IF c.pc = "done" THEN Append(completed, k) ELSE completed

\* lines 128-137, up to the fetch of line 13
\* lines 128-137 without the test of line 134
BegunUnguarded(k, c, clean) ==
  IF IsBlank(c.text)
    THEN Settle(k, [c EXCEPT !.pc = "done", !.result = c.text, !.line = 129])
  ELSE Settle(k, [c EXCEPT !.pc = "libre", !.cleanText = clean])

Begun(k, c, clean) ==
  IF IsBlank(c.text)
    THEN Settle(k, [c EXCEPT !.pc = "done", !.result = c.text, !.line = 129])
  ELSE IF IsBlank(clean)
    THEN Settle(k, [c EXCEPT !.pc = "done", !.result = c.text, !.line = 136,
                             !.cleanText = clean])
  ELSE Settle(k, [c EXCEPT !.pc = "libre", !.cleanText = clean])

TranslateBegin(k) ==
  /\ k \in 1..Len(calls)
  /\ calls[k].pc = "start"
  /\ Begun(k, calls[k], stripHtml(calls[k].text))
  /\ UNCHANGED << inputs, tasks, hookVars, storeVars, pc, status, retText, retBatch, retSummary, path,
                  content, result, retry, waits, sent >>

\* lines 140-151: the fast provider answers
LibreAnswer(k) ==
  /\ k \in 1..Len(calls)
  /\ calls[k].pc = "libre"
  /\ LET c == calls[k]
     IN \E r \in LibreResponsesFor(op, c.cleanText) :
          LET t == translateWithLibreTranslate(r)
              c1 == [c EXCEPT !.libre = Append(@, r)]
          IN IF ~t.ok THEN Settle(k, Thrown(c1, "libre"))
             ELSE IF libreAccepted(t.val, c.cleanText)
               THEN Settle(k, [c1 EXCEPT !.pc = "done", !.result = t.val, !.line = 147])
             ELSE Settle(k, [c1 EXCEPT !.pc = "openai"])
  /\ UNCHANGED << inputs, tasks, hookVars, storeVars, pc, status, retText, retBatch, retSummary, path,
                  content, result, retry, waits, sent >>

\* lines 154-179: the completion answers
OpenAIAnswer(k) ==
  /\ k \in 1..Len(calls)
  /\ calls[k].pc = "openai"
  /\ LET c == calls[k]
     IN \E r \in ChatResponsesFor(op) :
          LET t == completionContent(r)
              c1 == [c EXCEPT !.openai = Append(@, r)]
          IN IF ~t.ok THEN Settle(k, Thrown(c1, "openai"))
             ELSE IF openaiAccepted(t.val)
               THEN Settle(k, [c1 EXCEPT !.pc = "done", !.result = stripHtml(t.val),
                                         !.line = 172])
             ELSE Settle(k, [c1 EXCEPT !.pc = "done",
                                       !.result = fallbackText(c.text, c.cleanText),
                                       !.line = 179])
  /\ UNCHANGED << inputs, tasks, hookVars, storeVars, pc, status, retText, retBatch, retSummary, path,
                  content, result, retry, waits, sent >>

\* lines 126-184 as a function: the value one invocation resolves with
\* when its provider calls, if made, are answered by ls[1] and os[1]
translatedValue(t, clean, ls, os) ==
  LET l == translateWithLibreTranslate(ls[1])
      o == completionContent(os[1])
  IN IF IsBlank(t) \/ IsBlank(clean) THEN t
     ELSE IF ls # << >> /\ l.ok /\ libreAccepted(l.val, clean) THEN l.val
     ELSE IF os # << >> /\ o.ok /\ openaiAccepted(o.val) THEN stripHtml(o.val)
     ELSE clean

translateToTurkishValue(t, ls, os) == translatedValue(t, stripHtml(t), ls, os)

(* ------------------------------------------------------------------ *)
(* translateText, lines 114-121, and a direct translateToTurkish call *)
(* ------------------------------------------------------------------ *)

\* translateText without the test of line 115
TranslateTextCallAlways ==
  /\ op = "translateText"
  /\ pc = "init"
  /\ calls' = << NewCall(text) >>
  /\ pc' = "translating"
  /\ UNCHANGED << inputs, tasks, hookVars, storeVars, completed, status, retText, retBatch, retSummary, path,
                  content, result, retry, waits, sent >>

TranslateTextCall ==
  /\ op = "translateText"
  /\ pc = "init"
  /\ IF targetLang = "en"
       THEN /\ retText' = stripHtml(text)
            /\ status' = "resolved"
            /\ path' = 117
            /\ pc' = "done"
            /\ UNCHANGED calls
       ELSE /\ calls' = << NewCall(text) >>
            /\ pc' = "translating"
            /\ UNCHANGED << retText, status, path >>
  /\ UNCHANGED << inputs, tasks, hookVars, storeVars, completed, retBatch, retSummary, content, result,
                  retry, waits, sent >>

TranslateToTurkishCall ==
  /\ op = "translateToTurkish"
  /\ pc = "init"
  /\ calls' = << NewCall(text) >>
  /\ pc' = "translating"
  /\ UNCHANGED << inputs, tasks, hookVars, storeVars, completed, status, retText, retBatch, retSummary, path,
                  content, result, retry, waits, sent >>

\* the promise of translateToTurkish settles the caller's promise
TranslateReturn ==
  /\ op \in {"translateText", "translateToTurkish"}
  /\ pc = "translating"
  /\ calls[1].pc = "done"
  /\ status' = IF calls[1].rejected THEN "rejected" ELSE "resolved"
  /\ retText' = calls[1].result
  /\ path' = calls[1].line
  /\ pc' = "done"
  /\ UNCHANGED << inputs, tasks, hookVars, storeVars, calls, completed, retBatch, retSummary, content, result,
                  retry, waits, sent >>

NoRetry == [site |-> "none", i |-> 0, maxRetries |-> 0, initialDelay |-> 0,
            lastError |-> ""]

NoSummary == [summary |-> JUndefined, sentiment |-> ""]

InitCommon ==
  /\ cheerioThrows \in BOOLEAN
  /\ pc = "init"
  /\ calls = << >>
  /\ completed = << >>
  /\ status = "pending"
  /\ retText = ""
  /\ retBatch = << >>
  /\ retSummary = NoSummary
  /\ path = 0
  /\ content = ""
  /\ result = ""
  /\ retry = NoRetry
  /\ waits = << >>
  /\ sent = << >>
  /\ tasks = << >>
  /\ isMinting = FALSE
  /\ isConnecting = FALSE
  /\ account = ""
  /\ mints = << >>
  /\ connects = << >>
  /\ listeners = 0
  /\ metadataStore = << >>
  /\ saved = << >>
  /\ response = [status |-> 0, description |-> "", tokenId |-> "", after |-> 0]

InitTranslate ==
  /\ op \in {"translateText", "translateToTurkish"}
  /\ text \in Texts
  /\ targetLang \in {"tr", "en"}
  /\ op = "translateToTurkish" => targetLang = "tr"
  /\ texts = << >>
  /\ title = ""
  /\ body = Absent
  /\ InitCommon

NextTranslate ==
  \/ TranslateTextCall
  \/ TranslateToTurkishCall
  \/ TranslateBegin(1)
  \/ LibreAnswer(1)
  \/ OpenAIAnswer(1)
  \/ TranslateReturn

SpecTranslate == InitTranslate /\ [][NextTranslate]_vars

(* ------------------------------------------------------------------ *)
(* summarizeAndTranslate (236-371) and summarizeInEnglish (378-451)   *)
(* ------------------------------------------------------------------ *)

MaxContent == 2000

MinSummaryLength == 10

MinTitleLength == 8

SummaryRetries == 3

SummaryDelay == 1000

TitleRetries == 2

TitleDelay == 500

Sentiments == {"positive", "negative", "neutral"}

\* of [üğışöçÜĞİŞÖÇ], the characters a string of this module can contain
TurkishChars == {"ü", "ö", "ç", "Ü", "Ö", "Ç"}

\* lines 239-242 / 381-384
buildContentAtLimit(ttl, b) ==
  LET c == IF b.present /\ b.s # "" THEN ttl \o "\n\n" \o b.s ELSE ttl
  IN IF Len(c) >= MaxContent THEN Sub(c, 1, MaxContent) \o "..." ELSE c

buildContent(ttl, b) ==
  LET c == IF b.present /\ b.s # "" THEN ttl \o "\n\n" \o b.s ELSE ttl
  IN IF Len(c) > MaxContent THEN Sub(c, 1, MaxContent) \o "..." ELSE c

\* line 332 / 436
coerceSentiment(v) == IF v.t = "string" /\ v.s \in Sentiments THEN v.s ELSE "neutral"

\* an exception raised inside the try of line 291 / 429
summaryThrew == [threw |-> TRUE, summary |-> JUndefined, sentiment |-> ""]

\* a || b for two values
OrElseValue(a, b) == IF Truthy(a) THEN a ELSE b

\* lines 330-333: the object returned for the scrubbed summary
summaryReturnedTr(p, scrubbed, ttl) ==
  [threw |-> FALSE,
   summary |-> IF scrubbed # "" /\ Len(scrubbed) > MinSummaryLength
                 THEN JStr(scrubbed) ELSE JStr(ttl),
   sentiment |-> coerceSentiment(GetProp(p.v, "sentiment"))]

\* lines 299-328: a cleanSummary that is not a string has no replace method
scrubParsed(p, cleanSummary, ttl) ==
  IF cleanSummary.t # "string" THEN summaryThrew
  ELSE summaryReturnedTr(p, scrubSummary(cleanSummary.s), ttl)

\* lines 293-296 for the outcome p of JSON.parse
parsedSummaryTr(p, ttl) ==
  IF ~p.ok \/ p.v.t = "null" THEN summaryThrew
  ELSE scrubParsed(p, OrElseValue(GetProp(p.v, "summary"), JStr(ttl)), ttl)

\* lines 292-333: threw = TRUE is an exception raised inside the try
parseSummaryTr(res, ttl) == parsedSummaryTr(JSONParse(stripFences(res)), ttl)

\* line 435
acceptedSummaryEn(sm, ttl) ==
  IF Truthy(sm) /\ LengthGreater(sm, MinSummaryLength) THEN sm ELSE JStr(ttl)

\* lines 432-437 for the outcome p of JSON.parse
parsedSummaryEn(p, ttl) ==
  IF ~p.ok \/ p.v.t = "null" THEN summaryThrew
  ELSE [threw |-> FALSE,
        summary |-> acceptedSummaryEn(GetProp(p.v, "summary"), ttl),
        sentiment |-> coerceSentiment(GetProp(p.v, "sentiment"))]

\* lines 430-437
parseSummaryEn(res, ttl) == parsedSummaryEn(JSONParse(stripFences(res)), ttl)

\* lines 354-358 without the test of translatedTitle itself
titleAcceptedEmpty(translatedTitle, ttl) ==
  \/ toLowerCase(translatedTitle) # toLowerCase(ttl)
  \/ Len(translatedTitle) > MinTitleLength
  \/ \E k \in 1..Len(translatedTitle) : Ch(translatedTitle, k) \in TurkishChars

\* lines 354-358
titleAccepted(translatedTitle, ttl) ==
  /\ translatedTitle # ""
  /\ \/ toLowerCase(translatedTitle) # toLowerCase(ttl)
     \/ Len(translatedTitle) > MinTitleLength
     \/ \E k \in 1..Len(translatedTitle) : Ch(translatedTitle, k) \in TurkishChars

\* the catch clause that receives an exception raised at a site of the
\* two summarize functions ("none": the exception leaves the function)
SummarizeHandlerUncaught(site) ==
  CASE site = "try291" -> "catch334"
    [] site = "catch334" -> "catch342"
    [] site = "retry347" -> "catch365"
    [] OTHER -> "none"

SummarizeHandler(site) ==
  CASE site = "try291" -> "catch334"
    [] site \in {"retry249", "catch334"} -> "catch342"
    [] site = "retry347" -> "catch365"
    [] OTHER -> "none"

IsTr == op = "summarizeAndTranslate"

Return(summary, sentiment, line) ==
  /\ status' = "resolved"
  /\ retSummary' = [summary |-> summary, sentiment |-> sentiment]
  /\ path' = line
  /\ pc' = "done"
  /\ UNCHANGED retry

Reject ==
  /\ status' = "rejected"
  /\ pc' = "done"
  /\ UNCHANGED << retSummary, path, retry >>

\* lines 342-370 up to the call of line 347 / lines 446-450
Catch342 ==
  IF IsTr
    THEN /\ pc' = "fallback"
         /\ retry' = [site |-> "retry347", i |-> 0, maxRetries |-> TitleRetries,
                      initialDelay |-> TitleDelay, lastError |-> ""]
         /\ UNCHANGED << status, retSummary, path >>
    ELSE Return(JStr(title), "neutral", 449)

\* an exception raised at site, outside the try of line 291
Throw(site) ==
  CASE SummarizeHandler(site) = "catch342" -> Catch342
    [] SummarizeHandler(site) = "catch365" -> Return(JStr(title), "neutral", 368)
    [] OTHER -> Reject

\* lines 334-341 / 438-445 without the length test of line 337 / 441
Catch334AnyText ==
  IF result # ""
    THEN Return(JStr(result), "neutral", IF IsTr THEN 338 ELSE 442)
    ELSE Throw("catch334")

\* lines 334-341 / 438-445
Catch334 ==
  IF result # "" /\ Len(result) > MinSummaryLength
    THEN Return(JStr(result), "neutral", IF IsTr THEN 338 ELSE 442)
    ELSE Throw("catch334")

\* the catch of lines 219-225 with one attempt too many
RetryCatchExtra(err) ==
  IF retry.i < retry.maxRetries
    THEN /\ retry' = [retry EXCEPT !.lastError = err]
         /\ waits' = Append(waits, retry.initialDelay * 2 ^ retry.i)
         /\ pc' = "backoff"
    ELSE /\ retry' = [retry EXCEPT !.lastError = err, !.i = @ + 1]
         /\ pc' = "exhausted"
         /\ UNCHANGED waits

\* the catch of lines 219-225 with a delay that does not grow
RetryCatchConstantDelay(err) ==
  IF retry.i < retry.maxRetries - 1
    THEN /\ retry' = [retry EXCEPT !.lastError = err]
         /\ waits' = Append(waits, retry.initialDelay)
         /\ pc' = "backoff"
    ELSE /\ retry' = [retry EXCEPT !.lastError = err, !.i = @ + 1]
         /\ pc' = "exhausted"
         /\ UNCHANGED waits

\* the catch of lines 219-225 keeping the first error
RetryCatchFirstError(err) ==
  IF retry.i < retry.maxRetries - 1
    THEN /\ retry' = [retry EXCEPT !.lastError = IF @ = "" THEN err ELSE @]
         /\ waits' = Append(waits, retry.initialDelay * 2 ^ retry.i)
         /\ pc' = "backoff"
    ELSE /\ retry' = [retry EXCEPT !.lastError = IF @ = "" THEN err ELSE @, !.i = @ + 1]
         /\ pc' = "exhausted"
         /\ UNCHANGED waits

\* retryWithBackoff, lines 219-225: attempt retry.i raised err
RetryCatch(err) ==
  IF retry.i < retry.maxRetries - 1
    THEN /\ retry' = [retry EXCEPT !.lastError = err]
         /\ waits' = Append(waits, retry.initialDelay * 2 ^ retry.i)
         /\ pc' = "backoff"
    ELSE /\ retry' = [retry EXCEPT !.lastError = err, !.i = @ + 1]
         /\ pc' = "exhausted"
         /\ UNCHANGED waits

SummarizeCall ==
  /\ op \in {"summarizeAndTranslate", "summarizeInEnglish"}
  /\ pc = "init"
  /\ LET c == buildContent(title, body)
     IN /\ content' = c
        /\ IF IsBlank(c)
             THEN Return(JStr(title), "neutral", IF IsTr THEN 245 ELSE 387)
             ELSE /\ pc' = "attempt"
                  /\ retry' = [site |-> "retry249", i |-> 0,
                               maxRetries |-> SummaryRetries,
                               initialDelay |-> SummaryDelay, lastError |-> ""]
                  /\ UNCHANGED << status, retSummary, path >>
  /\ UNCHANGED << inputs, tasks, hookVars, storeVars, calls, completed, retText, retBatch, result, waits, sent >>

\* lines 249-288 / 391-426: one attempt of the completion
CompletionAttempt ==
  /\ pc = "attempt"
  /\ \E r \in SummaryResponses :
       LET t == completionContent(r)
       IN /\ sent' = Append(sent, content)
          /\ IF t.ok
               THEN /\ result' = t.val
                    /\ pc' = "parse"
                    /\ UNCHANGED << retry, waits >>
               ELSE /\ RetryCatch(t.err)
                    /\ UNCHANGED result
  /\ UNCHANGED << inputs, tasks, hookVars, storeVars, calls, completed, status, retText, retBatch, retSummary,
                  path, content >>

\* line 223: the timer of the backoff wait fires
BackoffElapsed ==
  /\ pc = "backoff"
  /\ retry' = [retry EXCEPT !.i = @ + 1]
  /\ pc' = CASE retry.site = "retry249" -> "attempt"
             [] retry.site = "retry347" -> "fallback"
             [] OTHER -> "call"
  /\ UNCHANGED << inputs, tasks, hookVars, storeVars, calls, completed, status, retText, retBatch, retSummary,
                  path, content, result, waits, sent >>

\* line 228: throw lastError
RetryExhausted ==
  /\ pc = "exhausted"
  /\ Throw(retry.site)
  /\ UNCHANGED << inputs, tasks, hookVars, storeVars, calls, completed, retText, retBatch, content, result,
                  waits, sent >>

\* lines 291-341 / 429-445
Parsed(p) ==
  IF ~p.threw THEN Return(p.summary, p.sentiment, IF IsTr THEN 330 ELSE 434)
  ELSE IF SummarizeHandler("try291") = "catch334" THEN Catch334
  ELSE Throw("try291")

ParseResult ==
  /\ pc = "parse"
  /\ Parsed(IF IsTr THEN parseSummaryTr(result, title) ELSE parseSummaryEn(result, title))
  /\ UNCHANGED << inputs, tasks, hookVars, storeVars, calls, completed, retText, retBatch, content, result,
                  waits, sent >>

\* line 348: an attempt of retryWithBackoff calls translateToTurkish(title)
FallbackCall ==
  /\ pc = "fallback"
  /\ calls' = << NewCall(title) >>
  /\ pc' = "translating"
  /\ UNCHANGED << inputs, tasks, hookVars, storeVars, completed, status, retText, retBatch, retSummary, path,
                  content, result, retry, waits, sent >>

\* lines 347-364 with an empty translated title raised inside the retried
\* function
FallbackReturnStrict ==
  /\ op = "summarizeAndTranslate"
  /\ pc = "translating"
  /\ calls[1].pc = "done"
  /\ IF calls[1].rejected \/ calls[1].result = ""
       THEN /\ RetryCatch("Error: translation failed")
            /\ UNCHANGED << status, retSummary, path >>
       ELSE /\ IF titleAccepted(calls[1].result, title)
                 THEN Return(JStr(calls[1].result), "neutral", 359)
                 ELSE Return(JStr(title), "neutral", 363)
            /\ UNCHANGED waits
  /\ UNCHANGED << inputs, tasks, hookVars, storeVars, calls, completed, retText, retBatch, content, result, sent >>

\* lines 347-364: the promise of translateToTurkish(title) settles
FallbackReturn ==
  /\ op = "summarizeAndTranslate"
  /\ pc = "translating"
  /\ calls[1].pc = "done"
  /\ IF calls[1].rejected
       THEN /\ RetryCatch("Error: translation failed")
            /\ UNCHANGED << status, retSummary, path >>
       ELSE /\ IF titleAccepted(calls[1].result, title)
                 THEN Return(JStr(calls[1].result), "neutral", 359)
                 ELSE Return(JStr(title), "neutral", 363)
            /\ UNCHANGED waits
  /\ UNCHANGED << inputs, tasks, hookVars, storeVars, calls, completed, retText, retBatch, content, result, sent >>

InitSummarize ==
  /\ op \in {"summarizeAndTranslate", "summarizeInEnglish"}
  /\ \E in \in SummaryInputs : title = in.title /\ body = in.body
  /\ text = ""
  /\ targetLang = "tr"
  /\ texts = << >>
  /\ InitCommon

NextSummarize ==
  \/ SummarizeCall
  \/ CompletionAttempt
  \/ BackoffElapsed
  \/ RetryExhausted
  \/ ParseResult
  \/ FallbackCall
  \/ TranslateBegin(1)
  \/ LibreAnswer(1)
  \/ OpenAIAnswer(1)
  \/ FallbackReturn

SpecSummarize == InitSummarize /\ [][NextSummarize]_vars

(* ------------------------------------------------------------------ *)
(* translateBatch, lines 189-199                                      *)
(* ------------------------------------------------------------------ *)

\* line 192: texts.map(text => translateToTurkish(text)) starts every
\* invocation before any of them is resumed
TranslateBatchCall ==
  /\ op = "translateBatch"
  /\ pc = "init"
  /\ calls' = [k \in 1..Len(texts) |-> NewCall(texts[k])]
  /\ pc' = "translating"
  /\ UNCHANGED << inputs, tasks, hookVars, storeVars, completed, status, retText, retBatch, retSummary, path,
                  content, result, retry, waits, sent >>

\* the array Promise.all resolves with: the value of promise k at index k
promiseAllAsSettled(cs, order) == [k \in 1..Len(cs) |-> cs[order[k]].result]

promiseAll(cs, order) == [k \in 1..Len(cs) |-> cs[k].result]

\* lines 191-198: Promise.all settles
BatchReturn ==
  /\ op = "translateBatch"
  /\ pc = "translating"
  /\ \/ \A k \in 1..Len(calls) : calls[k].pc = "done"
     \/ \E k \in 1..Len(calls) : calls[k].pc = "done" /\ calls[k].rejected
  /\ IF \E k \in 1..Len(calls) : calls[k].rejected
       THEN retBatch' = texts /\ path' = 197
       ELSE retBatch' = promiseAll(calls, completed) /\ path' = 194
  /\ status' = "resolved"
  /\ pc' = "done"
  /\ UNCHANGED << inputs, tasks, hookVars, storeVars, calls, completed, retText, retSummary, content, result,
                  retry, waits, sent >>

InitBatch ==
  /\ op = "translateBatch"
  /\ texts \in UNION { [1..n -> BatchTexts] : n \in 0..MaxBatch }
  /\ text = ""
  /\ targetLang = "tr"
  /\ title = ""
  /\ body = Absent
  /\ InitCommon

NextBatch ==
  \/ TranslateBatchCall
  \/ \E k \in 1..Len(calls) : TranslateBegin(k)
  \/ \E k \in 1..Len(calls) : LibreAnswer(k)
  \/ \E k \in 1..Len(calls) : OpenAIAnswer(k)
  \/ BatchReturn

SpecBatch == InitBatch /\ [][NextBatch]_vars

(* ------------------------------------------------------------------ *)
(* stripHtml applied to its own output, lines 54-109                  *)
(* ------------------------------------------------------------------ *)

\* the documents explored: a head, a middle and a tail
DocHeads == { "", "<p>", "&lt;b&gt;", "  ", "| " }

DocMiddles ==
  { "Bitcoin rallies", "ht[...]tp://x.io now", "Read RSVP:more: here", "short",
    "see ?a=1https://t.co/abc ok now" }

DocTails == { "", "</p>", "&lt;/b&gt; today", " | via @news", " &amp;lt;i&amp;gt; end" }

Documents ==
  { h \o m \o t : h \in DocHeads, m \in DocMiddles, t \in DocTails }
    \cup { "Bitcoin hits $50k | via @cryptoNews" }

\* stripHtml(text)
StripOnce ==
  /\ op = "stripHtml"
  /\ pc = "init"
  /\ retText' = stripHtml(text)
  /\ pc' = "once"
  /\ UNCHANGED << inputs, tasks, hookVars, storeVars, calls, completed, status, retBatch, retSummary, path,
                  content, result, retry, waits, sent >>

\* stripHtml of the value the first call returned
StripAgain ==
  /\ op = "stripHtml"
  /\ pc = "once"
  /\ retText' = stripHtml(retText)
  /\ pc' = "twice"
  /\ UNCHANGED << inputs, tasks, hookVars, storeVars, calls, completed, status, retBatch, retSummary, path,
                  content, result, retry, waits, sent >>

InitNormalize ==
  /\ op = "stripHtml"
  /\ text \in Documents
  /\ targetLang = "tr"
  /\ texts = << >>
  /\ title = ""
  /\ body = Absent
  /\ InitCommon

NextNormalize ==
  \/ StripOnce
  \/ StripAgain

SpecNormalize == InitNormalize /\ [][NextNormalize]_vars

(* ------------------------------------------------------------------ *)
(* retryWithBackoff(fn, maxRetries, initialDelay), lines 209-229      *)
(* fn is any function: a call of it resolves with a value of FnValues *)
(* or raises an error of FnErrors.  sent holds the outcome of each    *)
(* call of fn, in order; lastError = "" stands for undefined.         *)
(* ------------------------------------------------------------------ *)

MaxAttempts == 3

Delays == {500, 1000}

FnValues == {"v1", "v2"}

FnErrors == {"E1", "E2"}

\* lines 209-216: the loop is entered when 0 < maxRetries
RetryCall ==
  /\ op = "retryWithBackoff"
  /\ pc = "init"
  /\ \E n \in 0..MaxAttempts, d \in Delays :
       /\ retry' = [site |-> "fn", i |-> 0, maxRetries |-> n, initialDelay |-> d,
                    lastError |-> ""]
       /\ pc' = IF 0 < n THEN "call" ELSE "exhausted"
  /\ UNCHANGED << inputs, tasks, hookVars, storeVars, calls, completed, status, retText, retBatch, retSummary,
                  path, content, result, waits, sent >>

\* lines 217-218: return await fn()
FnReturn ==
  /\ op = "retryWithBackoff"
  /\ pc = "call"
  /\ \E v \in FnValues :
       /\ sent' = Append(sent, v)
       /\ retText' = v
  /\ status' = "resolved"
  /\ pc' = "done"
  /\ UNCHANGED << inputs, tasks, hookVars, storeVars, calls, completed, retBatch, retSummary, path, content,
                  result, retry, waits >>

\* lines 217-225: fn raised
FnRaise ==
  /\ op = "retryWithBackoff"
  /\ pc = "call"
  /\ \E e \in FnErrors :
       /\ sent' = Append(sent, e)
       /\ RetryCatch(e)
  /\ UNCHANGED << inputs, tasks, hookVars, storeVars, calls, completed, status, retText, retBatch, retSummary,
                  path, content, result >>

InitRetry ==
  /\ op = "retryWithBackoff"
  /\ text = ""
  /\ targetLang = "tr"
  /\ texts = << >>
  /\ title = ""
  /\ body = Absent
  /\ InitCommon

NextRetry ==
  \/ RetryCall
  \/ FnReturn
  \/ FnRaise
  \/ BackoffElapsed
  \/ RetryExhausted

SpecRetry == InitRetry /\ [][NextRetry]_vars

(* ------------------------------------------------------------------ *)
(* Concurrent invocations of retryWithBackoff, lines 209-229.         *)
(* maxRetries, initialDelay, i and lastError are parameters and       *)
(* locals of the invocation; tasks[k] holds those of invocation k,    *)
(* with the outcomes of its calls of fn and its waits.  The fn of     *)
(* invocation k resolves with [by |-> k] or raises [by |-> k,         *)
(* attempt |-> i].                                                    *)
(* ------------------------------------------------------------------ *)

MaxRequests == 2

\* the (maxRetries, initialDelay) of the two call sites, lines 288 and 349-350
Policies ==
  { [maxRetries |-> SummaryRetries, initialDelay |-> SummaryDelay],
    [maxRetries |-> TitleRetries, initialDelay |-> TitleDelay] }

NoError == [by |-> 0, attempt |-> 0]

\* lines 209-216: the invocation at its first call of fn
NewTask(p) ==
  [maxRetries |-> p.maxRetries, initialDelay |-> p.initialDelay, i |-> 0,
   lastError |-> NoError, pc |-> "call", outcomes |-> << >>, waits |-> << >>,
   status |-> "pending", value |-> 0]

\* lines 217-218: fn resolved with v
returned(t, v) ==
  [t EXCEPT !.outcomes = Append(@, "ok"), !.pc = "done", !.status = "resolved",
            !.value = v]

\* lines 219-228: fn raised err
caught(t, err) ==
  IF t.i < t.maxRetries - 1
    THEN [t EXCEPT !.outcomes = Append(@, "raise"), !.lastError = err,
                   !.waits = Append(@, t.initialDelay * 2 ^ t.i), !.pc = "backoff"]
    ELSE [t EXCEPT !.outcomes = Append(@, "raise"), !.lastError = err,
                   !.i = @ + 1, !.pc = "done", !.status = "rejected"]

\* i and lastError kept in one place for all invocations
StoreShared(k, t) ==
  tasks' = [j \in 1..Len(tasks) |->
              IF j = k THEN t
              ELSE [tasks[j] EXCEPT !.i = t.i, !.lastError = t.lastError]]

\* a step of invocation k writes the locals of invocation k
Store(k, t) == tasks' = [tasks EXCEPT ![k] = t]

\* the caller starts its requests without awaiting any
InvokeAll ==
  /\ op = "concurrent"
  /\ pc = "init"
  /\ \E ps \in [1..MaxRequests -> Policies] :
       tasks' = [k \in 1..MaxRequests |-> NewTask(ps[k])]
  /\ pc' = "running"
  /\ UNCHANGED << inputs, hookVars, storeVars, calls, completed, status, retText, retBatch, retSummary,
                  path, content, result, retry, waits, sent >>

AttemptReturns(k) ==
  /\ pc = "running"
  /\ tasks[k].pc = "call"
  /\ Store(k, returned(tasks[k], [by |-> k]))
  /\ UNCHANGED << inputs, hookVars, storeVars, pc, calls, completed, status, retText, retBatch,
                  retSummary, path, content, result, retry, waits, sent >>

AttemptRaises(k) ==
  /\ pc = "running"
  /\ tasks[k].pc = "call"
  /\ Store(k, caught(tasks[k], [by |-> k, attempt |-> tasks[k].i]))
  /\ UNCHANGED << inputs, hookVars, storeVars, pc, calls, completed, status, retText, retBatch,
                  retSummary, path, content, result, retry, waits, sent >>

\* line 223: the timer of invocation k fires
TimerFires(k) ==
  /\ pc = "running"
  /\ tasks[k].pc = "backoff"
  /\ Store(k, [tasks[k] EXCEPT !.i = @ + 1, !.pc = "call"])
  /\ UNCHANGED << inputs, hookVars, storeVars, pc, calls, completed, status, retText, retBatch,
                  retSummary, path, content, result, retry, waits, sent >>

InitConcurrent ==
  /\ op = "concurrent"
  /\ text = ""
  /\ targetLang = "tr"
  /\ texts = << >>
  /\ title = ""
  /\ body = Absent
  /\ InitCommon

NextConcurrent ==
  \/ InvokeAll
  \/ \E k \in 1..Len(tasks) : AttemptReturns(k)
  \/ \E k \in 1..Len(tasks) : AttemptRaises(k)
  \/ \E k \in 1..Len(tasks) : TimerFires(k)

SpecConcurrent == InitConcurrent /\ [][NextConcurrent]_vars

(* ------------------------------------------------------------------ *)
(* useNFTMint: mintNFT, src/hooks/useNFTMint.ts lines 102-247.        *)
(* An invocation is a record: pc the await it is suspended at, the    *)
(* answers its pre-checks received, log the requests it made and the  *)
(* outcomes of the caught ones, in order, result the MintResult.      *)
(* Amounts are in units of 0.00001 ETH.                               *)
(* ------------------------------------------------------------------ *)

MaxMints == 2

\* NFT_CONTRACT_CONFIG.mintPrice, '0.00005'
MintPrice == 5

\* parseEther('0.001'), line 125
EstimatedGas == 100

NoResult == [success |-> FALSE, txHash |-> "", error |-> ""]

NewMint ==
  [pc |-> "onBase", onBase |-> FALSE, switched |-> FALSE, balance |-> 0 - 1,
   code |-> "", log |-> << >>, txHash |-> "", result |-> NoResult]

\* a thrown value: an Error with a message, or something else
Err(msg) == [isError |-> TRUE, msg |-> msg]

NotAnError == [isError |-> FALSE, msg |-> ""]

\* lines 222-238: the messages that are replaced, by the text they include
errorMessage(e) ==
  IF ~e.isError THEN "Mint failed"
  ELSE CASE e.msg = "user rejected" -> "Cancelled"
         [] e.msg = "insufficient funds" -> "Insufficient balance"
         [] e.msg = "CALL_EXCEPTION" -> "Contract call failed"
         [] OTHER -> e.msg

\* lines 219-243: the catch returns a MintResult
failed(m, e) ==
  [m EXCEPT !.pc = "done",
            !.result = [success |-> FALSE, txHash |-> "", error |-> errorMessage(e)]]

\* line 127 comparing with the mint price alone
balanceCoversPrice(b) == ~(b < MintPrice)

\* line 127
balanceSufficient(b) == ~(b < MintPrice + EstimatedGas)

\* lines 192-203 with a save that raises on a failure
saveSettledStrict(m, r) ==
  IF r = "ok"
    THEN [m EXCEPT !.log = @ \o << "save ok", "mintNFT" >>, !.pc = "tx"]
    ELSE failed([m EXCEPT !.log = Append(@, "save " \o r)], Err("Metadata save failed"))

\* lines 192-203: the save request settled with r; the transaction is sent
saveSettled(m, r) ==
  [m EXCEPT !.log = @ \o << "save " \o r, "mintNFT" >>, !.pc = "tx"]

\* the answers explored, fewer for overlapping calls
Balances(o) ==
  IF o = "mintNFT" THEN { 0, MintPrice, MintPrice + EstimatedGas - 1,
                          MintPrice + EstimatedGas, 2 * (MintPrice + EstimatedGas) }
  ELSE { MintPrice, MintPrice + EstimatedGas }

Codes(o) == IF o = "mintNFT" THEN { "0x", "0x6080" } ELSE { "0x6080" }

Raises(o) == IF o = "mintNFT" THEN { TRUE, FALSE } ELSE { FALSE }

\* line 245 runs when the invocation ends; one invocation writes its own record
MintSettle(k, m) ==
  /\ mints' = [mints EXCEPT ![k] = m]
  /\ isMinting' = IF m.pc = "done" THEN FALSE ELSE isMinting

\* lines 102-107
MintCall ==
  /\ op \in {"mintNFT", "mintNFT twice"}
  /\ Len(mints) < (IF op = "mintNFT" THEN 1 ELSE MaxMints)
  /\ mints' = Append(mints, NewMint)
  /\ isMinting' = TRUE
  /\ UNCHANGED << inputs, serviceVars, isConnecting, account, connects, listeners,
                  storeVars >>

\* lines 107-109: isOnBaseMainnet() answered
OnBaseAnswer(k) ==
  /\ k \in 1..Len(mints)
  /\ mints[k].pc = "onBase"
  /\ \E b \in BOOLEAN :
       MintSettle(k, [mints[k] EXCEPT !.onBase = b,
                                      !.pc = IF b THEN "signer" ELSE "switch"])
  /\ UNCHANGED << inputs, serviceVars, isConnecting, account, connects, listeners,
                  storeVars >>

\* lines 109-117: switchToBaseMainnet() answered
SwitchAnswer(k) ==
  /\ k \in 1..Len(mints)
  /\ mints[k].pc = "switch"
  /\ \E b \in BOOLEAN :
       IF b THEN MintSettle(k, [mints[k] EXCEPT !.switched = TRUE, !.pc = "signer"])
       ELSE MintSettle(k, failed(mints[k], Err("switch to Base Mainnet")))
  /\ UNCHANGED << inputs, serviceVars, isConnecting, account, connects, listeners,
                  storeVars >>

\* lines 117-120: getSigner() answered
SignerAnswer(k) ==
  /\ k \in 1..Len(mints)
  /\ mints[k].pc = "signer"
  /\ \E raised \in BOOLEAN :
       IF raised THEN MintSettle(k, failed(mints[k], Err("user rejected")))
       ELSE MintSettle(k, [mints[k] EXCEPT !.pc = "address"])
  /\ UNCHANGED << inputs, serviceVars, isConnecting, account, connects, listeners,
                  storeVars >>

\* lines 120-123: getAddress() answered
AddressAnswer(k) ==
  /\ k \in 1..Len(mints)
  /\ mints[k].pc = "address"
  /\ MintSettle(k, [mints[k] EXCEPT !.pc = "balance"])
  /\ UNCHANGED << inputs, serviceVars, isConnecting, account, connects, listeners,
                  storeVars >>

\* lines 123-139: getBalance() answered
BalanceAnswer(k) ==
  /\ k \in 1..Len(mints)
  /\ mints[k].pc = "balance"
  /\ \/ \E b \in Balances(op) :
          IF balanceSufficient(b)
            THEN MintSettle(k, [mints[k] EXCEPT !.balance = b, !.pc = "code"])
            ELSE MintSettle(k, failed([mints[k] EXCEPT !.balance = b],
                                      Err("balance too low")))
     \/ /\ TRUE \in Raises(op)
        /\ MintSettle(k, failed(mints[k], NotAnError))
  /\ UNCHANGED << inputs, serviceVars, isConnecting, account, connects, listeners,
                  storeVars >>

\* lines 139-157: getCode() answered; the gas estimate is requested
CodeAnswer(k) ==
  /\ k \in 1..Len(mints)
  /\ mints[k].pc = "code"
  /\ \/ \E c \in Codes(op) :
          IF c = "0x"
            THEN MintSettle(k, failed([mints[k] EXCEPT !.code = c],
                                      Err("contract not found")))
            ELSE MintSettle(k, [mints[k] EXCEPT !.code = c, !.pc = "estimate",
                                                !.log = Append(@, "estimateGas")])
     \/ /\ TRUE \in Raises(op)
        /\ MintSettle(k, failed(mints[k], Err("CALL_EXCEPTION")))
  /\ UNCHANGED << inputs, serviceVars, isConnecting, account, connects, listeners,
                  storeVars >>

\* lines 157-178: the estimate settled; the save request is issued
EstimateAnswer(k) ==
  /\ k \in 1..Len(mints)
  /\ mints[k].pc = "estimate"
  /\ \E raised \in Raises(op) :
       MintSettle(k, [mints[k] EXCEPT
                        !.log = @ \o << IF raised THEN "estimateGas failed"
                                                  ELSE "estimateGas ok", "save" >>,
                        !.pc = "save"])
  /\ UNCHANGED << inputs, serviceVars, isConnecting, account, connects, listeners,
                  storeVars >>

\* lines 178-203: the save request settled with an OK response, another
\* response, or a rejected fetch
SaveAnswer(k) ==
  /\ k \in 1..Len(mints)
  /\ mints[k].pc = "save"
  /\ \E r \in {"ok", "not ok", "error"} : MintSettle(k, saveSettled(mints[k], r))
  /\ UNCHANGED << inputs, serviceVars, isConnecting, account, connects, listeners,
                  storeVars >>

\* lines 203-211: contract.mintNFT(...) answered
TxAnswer(k) ==
  /\ k \in 1..Len(mints)
  /\ mints[k].pc = "tx"
  /\ \E r \in {"0xtx", "user rejected", "insufficient funds"} :
       IF r = "0xtx" THEN MintSettle(k, [mints[k] EXCEPT !.txHash = r, !.pc = "wait"])
       ELSE MintSettle(k, failed(mints[k], Err(r)))
  /\ UNCHANGED << inputs, serviceVars, isConnecting, account, connects, listeners,
                  storeVars >>

\* lines 211-218: tx.wait() answered with a receipt, with null, or raised
WaitAnswer(k) ==
  /\ k \in 1..Len(mints)
  /\ mints[k].pc = "wait"
  /\ \E r \in {"0xreceipt", "", "raise"} :
       IF r = "raise" THEN MintSettle(k, failed(mints[k], Err("CALL_EXCEPTION")))
       ELSE MintSettle(k, [mints[k] EXCEPT
                             !.pc = "done",
                             !.result = [success |-> TRUE,
                                         txHash |-> OrElse(r, mints[k].txHash),
                                         error |-> ""]])
  /\ UNCHANGED << inputs, serviceVars, isConnecting, account, connects, listeners,
                  storeVars >>

InitMint ==
  /\ op = "mintNFT"
  /\ text = ""
  /\ targetLang = "tr"
  /\ texts = << >>
  /\ title = ""
  /\ body = Absent
  /\ InitCommon

InitMintTwice ==
  /\ op = "mintNFT twice"
  /\ text = ""
  /\ targetLang = "tr"
  /\ texts = << >>
  /\ title = ""
  /\ body = Absent
  /\ InitCommon

NextMint ==
  \/ MintCall
  \/ \E k \in 1..Len(mints) : OnBaseAnswer(k)
  \/ \E k \in 1..Len(mints) : SwitchAnswer(k)
  \/ \E k \in 1..Len(mints) : SignerAnswer(k)
  \/ \E k \in 1..Len(mints) : AddressAnswer(k)
  \/ \E k \in 1..Len(mints) : BalanceAnswer(k)
  \/ \E k \in 1..Len(mints) : CodeAnswer(k)
  \/ \E k \in 1..Len(mints) : EstimateAnswer(k)
  \/ \E k \in 1..Len(mints) : SaveAnswer(k)
  \/ \E k \in 1..Len(mints) : TxAnswer(k)
  \/ \E k \in 1..Len(mints) : WaitAnswer(k)

\* one mintNFT call, with every answer explored
SpecMint == InitMint /\ [][NextMint]_vars

\* up to MaxMints mintNFT calls of one hook instance, overlapping
SpecMintTwice == InitMintTwice /\ [][NextMint]_vars

(* ------------------------------------------------------------------ *)
(* useNFTMint: connectWallet, src/hooks/useNFTMint.ts lines 41-92.    *)
(* An invocation is a record: pc the await it is suspended at or how  *)
(* it ended, before the account when it was called, changed whether   *)
(* its setAccount of line 58 gave account another value.              *)
(* ------------------------------------------------------------------ *)

MaxConnects == 2

\* the answers of eth_requestAccounts and the payloads of accountsChanged
AccountLists == { << >>, << "0xA" >>, << "0xB" >> }

\* accounts[0] || null
firstAccount(accounts) == IF Len(accounts) = 0 THEN "" ELSE accounts[1]

NewConnect(has) ==
  [pc |-> IF has THEN "accounts" ELSE "rejected", before |-> account,
   changed |-> FALSE, noWallet |-> ~has]

\* lines 86-91: the catch rethrows, the finally resets isConnecting
ConnectRejects(k) ==
  /\ connects' = [connects EXCEPT ![k].pc = "rejected"]
  /\ isConnecting' = FALSE
  /\ UNCHANGED << account, listeners >>

\* lines 74-91: the accountsChanged listener is registered and the call ends
ConnectResolves(k) ==
  /\ connects' = [connects EXCEPT ![k].pc = "resolved"]
  /\ listeners' = listeners + 1
  /\ isConnecting' = FALSE
  /\ UNCHANGED account

\* lines 41-51; without window.ethereum the call rejects at once. A page
\* that had a provider keeps it.
ConnectCall ==
  /\ op = "connectWallet"
  /\ Len(connects) < MaxConnects
  /\ \E has \in BOOLEAN :
       /\ ~has => \A j \in 1..Len(connects) : connects[j].noWallet
       /\ connects' = Append(connects, NewConnect(has))
       /\ isConnecting' = IF has THEN TRUE ELSE isConnecting
  /\ UNCHANGED << inputs, serviceVars, isMinting, mints, account, listeners, storeVars >>

\* lines 50-66: eth_requestAccounts answered or raised
AccountsAnswer(k) ==
  /\ k \in 1..Len(connects)
  /\ connects[k].pc = "accounts"
  /\ \/ \E accounts \in AccountLists :
          IF Len(accounts) = 0 THEN ConnectRejects(k)
          ELSE /\ account' = firstAccount(accounts)
               /\ connects' = [connects EXCEPT
                                 ![k].pc = "onBase",
                                 ![k].changed = (firstAccount(accounts) # account)]
               /\ UNCHANGED << isConnecting, listeners >>
     \/ ConnectRejects(k)
  /\ UNCHANGED << inputs, serviceVars, isMinting, mints, storeVars >>

\* lines 66-68: isOnBaseMainnet() answered
ConnectOnBaseAnswer(k) ==
  /\ k \in 1..Len(connects)
  /\ connects[k].pc = "onBase"
  /\ \E onBase \in BOOLEAN :
       IF onBase THEN ConnectResolves(k)
       ELSE /\ connects' = [connects EXCEPT ![k].pc = "switch"]
            /\ UNCHANGED << isConnecting, account, listeners >>
  /\ UNCHANGED << inputs, serviceVars, isMinting, mints, storeVars >>

\* lines 68-72: switchToBaseMainnet() answered
ConnectSwitchAnswer(k) ==
  /\ k \in 1..Len(connects)
  /\ connects[k].pc = "switch"
  /\ \E switched \in BOOLEAN :
       IF switched THEN ConnectResolves(k) ELSE ConnectRejects(k)
  /\ UNCHANGED << inputs, serviceVars, isMinting, mints, storeVars >>

\* lines 76-79: the wallet emits accountsChanged to the registered listeners
AccountsChanged ==
  /\ listeners > 0
  /\ \E newAccounts \in AccountLists : account' = firstAccount(newAccounts)
  /\ UNCHANGED << inputs, serviceVars, isMinting, mints, isConnecting, connects,
                  listeners, storeVars >>

InitConnect ==
  /\ op = "connectWallet"
  /\ text = ""
  /\ targetLang = "tr"
  /\ texts = << >>
  /\ title = ""
  /\ body = Absent
  /\ InitCommon

NextConnect ==
  \/ ConnectCall
  \/ \E k \in 1..Len(connects) : AccountsAnswer(k)
  \/ \E k \in 1..Len(connects) : ConnectOnBaseAnswer(k)
  \/ \E k \in 1..Len(connects) : ConnectSwitchAnswer(k)
  \/ AccountsChanged

\* up to MaxConnects connectWallet calls of one hook instance
SpecConnect == InitConnect /\ [][NextConnect]_vars

(* ------------------------------------------------------------------ *)
(* The metadata store, src/lib/metadata-storage.ts lines 23-46, and   *)
(* GET /api/metadata/[tokenId], src/app/api/metadata/[tokenId]/       *)
(* route.ts. metadataStore is the Map as a function on its keys; a    *)
(* metadata is reduced to its tokenId and description. saved is the history *)
(* of the saveMetadata calls; response is the last answer of the      *)
(* route, with the number of saves made before it.                    *)
(* ------------------------------------------------------------------ *)

MaxSaves == 3

TokenIds == { "1", "2" }

\* the tokenId segments requested; a dynamic segment is never empty
RequestedIds == TokenIds \cup { "3" }

Descriptions == { "Bitcoin", "Ethereum" }

\* null
NoMetadata == [tokenId |-> "", description |-> ""]

\* metadataStore = new Map() replaced on every save
saveMetadataAlone(store, metadata) ==
  [id \in { metadata.tokenId } |-> metadata]

\* lines 29-32: metadataStore.set(metadata.tokenId, metadata)
saveMetadata(store, metadata) ==
  [id \in DOMAIN store \cup { metadata.tokenId } |->
     IF id = metadata.tokenId THEN metadata ELSE store[id]]

\* lines 37-39: metadataStore.get(tokenId) || null
getMetadata(store, tokenId) ==
  IF tokenId \in DOMAIN store THEN store[tokenId] ELSE NoMetadata

\* lines 44-46: metadataStore.has(tokenId)
hasMetadata(store, tokenId) == tokenId \in DOMAIN store

\* route.ts lines 16-52: the status and the description of the JSON answered
GET(store, tokenId) ==
  IF tokenId = "" THEN [status |-> 400, description |-> ""]
  ELSE IF getMetadata(store, tokenId) = NoMetadata THEN [status |-> 404, description |-> ""]
  ELSE [status |-> 200, description |-> getMetadata(store, tokenId).description]

\* a saveMetadata call
SaveCall ==
  /\ op = "metadata"
  /\ Len(saved) < MaxSaves
  /\ \E id \in TokenIds : \E d \in Descriptions :
       /\ metadataStore' = saveMetadata(metadataStore, [tokenId |-> id, description |-> d])
       /\ saved' = Append(saved, [tokenId |-> id, description |-> d])
  /\ UNCHANGED << inputs, serviceVars, hookVars, response >>

\* a GET request for a tokenId
GetRequest ==
  /\ op = "metadata"
  /\ \E id \in RequestedIds :
       response' = [status |-> GET(metadataStore, id).status,
                    description |-> GET(metadataStore, id).description,
                    tokenId |-> id, after |-> Len(saved)]
  /\ UNCHANGED << inputs, serviceVars, hookVars, metadataStore, saved >>

InitStore ==
  /\ op = "metadata"
  /\ text = ""
  /\ targetLang = "tr"
  /\ texts = << >>
  /\ title = ""
  /\ body = Absent
  /\ InitCommon

NextStore == SaveCall \/ GetRequest

\* up to MaxSaves saveMetadata calls interleaved with GET requests
SpecStore == InitStore /\ [][NextStore]_vars

(* ------------------------------------------------------------------ *)
(* Properties                                                         *)
(* ------------------------------------------------------------------ *)

Translated == op \in {"translateText", "translateToTurkish"} /\ pc = "done"

Summarized == op \in {"summarizeAndTranslate", "summarizeInEnglish"} /\ pc = "done"

\* the fast provider was called and failed, or its output was rejected
LibreFailed(c) ==
  /\ Len(c.libre) = 1
  /\ \/ ~translateWithLibreTranslate(c.libre[1]).ok
     \/ ~libreAccepted(translateWithLibreTranslate(c.libre[1]).val, stripHtml(c.text))

\* the fallback provider was called and failed, or its output was rejected
OpenAIFailed(c) ==
  /\ Len(c.openai) = 1
  /\ \/ ~completionContent(c.openai[1]).ok
     \/ ~openaiAccepted(completionContent(c.openai[1]).val)

\* C1: translateText and translateToTurkish are total: whatever the input
\* and whatever the two providers answer, no exception leaves
\* translateToTurkish, the promise is never rejected, and a call that has
\* returned has resolved.
C1_Total ==
  /\ status # "rejected"
  /\ \A k \in 1..Len(calls) : ~calls[k].rejected
  /\ pc = "done" => status = "resolved"

\* C1 witness: a call returned after the fetch was rejected and the
\* completion raised
C1_Witness ==
  /\ Translated
  /\ status = "resolved"
  /\ Len(calls) = 1
  /\ Len(calls[1].libre) = 1 /\ ~calls[1].libre[1].net
  /\ Len(calls[1].openai) = 1 /\ calls[1].openai[1].kind = "raise"

\* C2: summarizeAndTranslate and summarizeInEnglish are total: whatever the
\* title, the body and the outcomes of the completions and of the title
\* translation, the promise is never rejected, a call that has returned has
\* resolved to an object with a summary and a sentiment, and the error that
\* leaves retryWithBackoff after its last attempt has a catch clause.
C2_Total ==
  /\ status # "rejected"
  /\ pc = "exhausted" => SummarizeHandler(retry.site) # "none"
  /\ Summarized => /\ status = "resolved"
                   /\ retSummary.summary.t # "undefined"
                   /\ retSummary.sentiment # ""

\* C2 witness: summarizeAndTranslate returned after all three completions
\* raised and the error of the last one reached the title translation
C2_Witness ==
  /\ op = "summarizeAndTranslate"
  /\ pc = "done"
  /\ status = "resolved"
  /\ Len(sent) = SummaryRetries
  /\ waits = << SummaryDelay, 2 * SummaryDelay >>
  /\ result = ""
  /\ path \in {359, 363}

\* the value JSON.parse gives for the completion the call received
ParsedResult == JSONParse(stripFences(result))

\* C3: sentiment closure: the sentiment of every result is one of positive,
\* negative, neutral; when the completion parses as JSON and its sentiment
\* member is exactly one of the three, that value is returned, and any
\* other value, or none, gives neutral.
C3_SentimentClosure ==
  Summarized =>
    /\ retSummary.sentiment \in Sentiments
    /\ ParsedResult.ok =>
         retSummary.sentiment =
           IF /\ GetProp(ParsedResult.v, "sentiment").t = "string"
              /\ GetProp(ParsedResult.v, "sentiment").s \in Sentiments
             THEN GetProp(ParsedResult.v, "sentiment").s
             ELSE "neutral"

\* C3, the part the code keeps: the sentiment of every result is one of
\* the three values
C3_Closed == Summarized => retSummary.sentiment \in Sentiments

\* C4: translateText never returns the empty string for a text that is not
\* blank, in either target language and whatever the providers answer.
C4_NeverEmpty ==
  (op = "translateText" /\ pc = "done" /\ ~IsBlank(text)) => retText # ""

\* C5: degradation order: when the fast provider failed or was rejected and
\* the fallback provider failed or was rejected, translateToTurkish(text)
\* returns stripHtml(text), which is not the empty string.
C5_DegradesToClean ==
  (Translated /\ Len(calls) = 1 /\ LibreFailed(calls[1]) /\ OpenAIFailed(calls[1])) =>
    /\ retText = stripHtml(text)
    /\ retText # ""

\* C5 witness: both providers failed for a text that stripHtml changes
C5_Witness ==
  /\ Translated
  /\ Len(calls) = 1
  /\ LibreFailed(calls[1])
  /\ OpenAIFailed(calls[1])
  /\ stripHtml(text) # text
  /\ retText = stripHtml(text)

\* C6: the summary of every result has more than 10 characters or is the
\* title the caller passed.
C6_LongOrTitle ==
  Summarized => LengthGreater(retSummary.summary, 10) \/ retSummary.summary = JStr(title)

\* C7: summary acceptance: when the completion parses as JSON, the summary
\* returned is the parsed one only if that member is present and longer
\* than 10 characters; in every other case it is the title, unmodified.
C7_Acceptance ==
  (Summarized /\ ParsedResult.ok) =>
    \/ /\ Truthy(GetProp(ParsedResult.v, "summary"))
       /\ LengthGreater(GetProp(ParsedResult.v, "summary"), 10)
    \/ retSummary.summary = JStr(title)

\* C8: translateBatch resolves with an array as long as texts whose element
\* i is the result of the invocation made for texts[i], whatever the order
\* in which the invocations completed.
C8_OrderPreserved ==
  (op = "translateBatch" /\ pc = "done") =>
    /\ Len(retBatch) = Len(texts)
    /\ Len(calls) = Len(texts)
    /\ \A i \in 1..Len(texts) :
         calls[i].text = texts[i] /\ retBatch[i] = calls[i].result

\* C8 witness: two invocations with different results completed in the
\* reverse of the order of texts
C8_Witness ==
  /\ op = "translateBatch"
  /\ pc = "done"
  /\ completed = << 2, 1 >>
  /\ calls[1].result # calls[2].result
  /\ retBatch = << calls[1].result, calls[2].result >>

\* C9: per-item isolation: element i of the batch result is what
\* translateToTurkish(texts[i]) returns alone with the provider outcomes of
\* item i, whatever happened to the other items.
C9_Isolated ==
  (op = "translateBatch" /\ pc = "done") =>
    \A i \in 1..Len(texts) :
      retBatch[i] = translateToTurkishValue(texts[i], calls[i].libre, calls[i].openai)

\* C9 witness: both providers failed for the first item before the second
\* item, with the same text, got its translation from the fast provider
C9_Witness ==
  /\ op = "translateBatch"
  /\ pc = "done"
  /\ completed = << 1, 2 >>
  /\ texts[1] = texts[2]
  /\ calls[1].line = 179
  /\ LibreFailed(calls[1]) /\ OpenAIFailed(calls[1])
  /\ calls[2].line = 147
  /\ retBatch[1] # retBatch[2]

\* title, or title, an empty line and the body when the body is not empty
FullContent ==
  IF body.present /\ body.s # "" THEN title \o "\n\n" \o body.s ELSE title

\* C10: truncation boundary: the content of every completion request is
\* the title, or the title, "\n\n" and the body when there is a body; of at
\* most 2000 characters it is sent as it is, of more than 2000 characters
\* its first 2000 characters followed by "..." are sent.
C10_Truncation ==
  \A k \in 1..Len(sent) :
    sent[k] = IF Len(FullContent) <= 2000 THEN FullContent
              ELSE Sub(FullContent, 1, 2000) \o "..."

\* C10 witness: a content of 2001 characters was sent as 2000 characters
\* and the ellipsis
C10_Witness ==
  /\ Len(sent) >= 1
  /\ Len(FullContent) = 2001
  /\ Len(sent[1]) = 2003
  /\ Sub(sent[1], 2001, 2003) = "..."

\* C11: normalization is idempotent: stripHtml(stripHtml(x)) = stripHtml(x)
\* for every document x.
C11_Idempotent == (op = "stripHtml" /\ pc = "twice") => retText = stripHtml(text)

\* C12: when stripHtml gives the empty string for a text that is not blank,
\* translateToTurkish returns the text unchanged and calls neither provider.
C12_EmptyCleanReturnsRaw ==
  (Len(calls) = 1 /\ calls[1].text = text /\ trim(text) # "" /\ stripHtml(text) = "") =>
    /\ calls[1].libre = << >>
    /\ calls[1].openai = << >>
    /\ Translated => retText = text

\* C12 witness: translateToTurkish returned at line 136
C12_Witness ==
  /\ Translated
  /\ Len(calls) = 1
  /\ trim(text) # ""
  /\ stripHtml(text) = ""
  /\ path = 136
  /\ retText = text

\* C13: translateText(text, 'en') calls neither provider and returns
\* stripHtml(text).
C13_EnglishSkips ==
  (op = "translateText" /\ targetLang = "en") =>
    /\ calls = << >>
    /\ pc = "done" => retText = stripHtml(text) /\ status = "resolved"

\* C13 witness: translateText(text, 'en') returned a cleaned text that is
\* neither the text nor empty
C13_Witness ==
  /\ op = "translateText"
  /\ targetLang = "en"
  /\ pc = "done"
  /\ calls = << >>
  /\ retText = stripHtml(text)
  /\ retText # text
  /\ retText # ""

\* the content of lines 239-242: FullContent, cut to 2000 characters and
\* the ellipsis when it is longer
CutContent ==
  IF Len(FullContent) <= 2000 THEN FullContent ELSE Sub(FullContent, 1, 2000) \o "..."

\* C14: when the content is empty or only white space, summarizeAndTranslate
\* and summarizeInEnglish return {summary: title, sentiment: 'neutral'}
\* without any provider call and without any backoff wait.
C14_BlankShortCircuits ==
  (op \in {"summarizeAndTranslate", "summarizeInEnglish"} /\ trim(CutContent) = "") =>
    /\ sent = << >>
    /\ waits = << >>
    /\ calls = << >>
    /\ pc = "done" => /\ status = "resolved"
                      /\ retSummary = [summary |-> JStr(title), sentiment |-> "neutral"]

\* C14 witness: a call whose content is white space only has returned
C14_Witness ==
  /\ Summarized
  /\ body.present
  /\ CutContent # ""
  /\ trim(CutContent) = ""
  /\ path \in {245, 387}
  /\ retSummary = [summary |-> JStr(title), sentiment |-> "neutral"]

\* C15: in translateToTurkish the completion is called with retry: when the
\* call of the completion raised, further attempts follow, after a backoff
\* wait, before the cleaned text is returned.
C15_FallbackRetried ==
  \A k \in 1..Len(calls) :
    (calls[k].pc = "done" /\ Len(calls[k].openai) >= 1
       /\ calls[k].openai[1].kind = "raise") =>
      Len(calls[k].openai) > 1 /\ waits # << >>

\* the calls of fn that raised
Failures == { k \in 1..Len(sent) : sent[k] \in FnErrors }

\* C16: retryWithBackoff calls fn at most maxRetries times, one call after
\* the other: every call but the last one has failed and its backoff wait
\* has elapsed before the next call; it resolves with the value of the
\* first call that succeeds, and no call or wait follows a success.
C16_Sequential ==
  op = "retryWithBackoff" =>
    /\ Len(sent) <= retry.maxRetries
    /\ \A k \in 1..(Len(sent) - 1) : sent[k] \in FnErrors
    /\ pc = "call" => Len(waits) = Len(sent) /\ retry.i = Len(sent)
    /\ pc = "backoff" => Len(waits) = Len(sent) /\ retry.i = Len(sent) - 1
    /\ status = "resolved" =>
         /\ pc = "done"
         /\ sent[Len(sent)] \in FnValues
         /\ retText = sent[Len(sent)]
         /\ Len(waits) = Len(sent) - 1

\* C16 witness: the third call succeeded after two failures
C16_Witness ==
  /\ op = "retryWithBackoff"
  /\ status = "resolved"
  /\ Len(sent) = 3
  /\ sent[1] \in FnErrors /\ sent[2] \in FnErrors
  /\ retText = sent[3]
  /\ Len(waits) = 2

\* C17: backoff schedule: the wait after the failure of attempt i (from 0)
\* is initialDelay * 2^i when i < maxRetries - 1, and there is no wait
\* after the last attempt; maxRetries = 3 and initialDelay = 1000 with
\* three failures give the waits 1000 and 2000.
C17_Schedule ==
  (op = "retryWithBackoff" /\ retry.maxRetries >= 1) =>
    /\ \A k \in 1..Len(waits) : waits[k] = retry.initialDelay * 2 ^ (k - 1)
    /\ Len(waits) = IF Cardinality(Failures) < retry.maxRetries
                      THEN Cardinality(Failures) ELSE retry.maxRetries - 1
    /\ (Cardinality(Failures) = 3 /\ retry.maxRetries = 3 /\ retry.initialDelay = 1000) =>
         waits = << 1000, 2000 >>

\* C17 witness: three failures with maxRetries = 3 and initialDelay = 1000
C17_Witness ==
  /\ op = "retryWithBackoff"
  /\ retry.maxRetries = 3
  /\ retry.initialDelay = 1000
  /\ Cardinality(Failures) = 3
  /\ status = "rejected"
  /\ waits = << 1000, 2000 >>

\* C18: retryWithBackoff rejects only when maxRetries attempts have all
\* failed, and with the error of the last attempt; when maxRetries >= 1
\* the rejection value is an error that fn raised.
C18_LastError ==
  (op = "retryWithBackoff" /\ status = "rejected") =>
    /\ Len(sent) = retry.maxRetries
    /\ \A k \in 1..Len(sent) : sent[k] \in FnErrors
    /\ retry.maxRetries >= 1 =>
         retry.lastError = sent[Len(sent)] /\ retry.lastError \in FnErrors

\* C18 witness: rejected with the error of the third attempt, which is not
\* the error of the first
C18_Witness ==
  /\ op = "retryWithBackoff"
  /\ status = "rejected"
  /\ Len(sent) = 3
  /\ retry.lastError = sent[3]
  /\ sent[3] # sent[1]

\* C19: one translateToTurkish call invokes the fast provider at most
\* once, a failure of it is not retried, and the fallback provider is
\* invoked (at most once) only after the fast provider has been invoked
\* and has failed or had its output rejected.
C19_ProviderOrder ==
  \A k \in 1..Len(calls) :
    /\ Len(calls[k].libre) <= 1
    /\ Len(calls[k].openai) <= 1
    /\ (calls[k].pc = "openai" \/ Len(calls[k].openai) >= 1) => LibreFailed(calls[k])
    /\ calls[k].pc \in {"start", "libre"} => calls[k].openai = << >>

\* C19 witness: the fast provider raised once and the fallback provider
\* was then invoked
C19_Witness ==
  \E k \in 1..Len(calls) :
    /\ calls[k].pc = "done"
    /\ Len(calls[k].libre) = 1
    /\ ~translateWithLibreTranslate(calls[k].libre[1]).ok
    /\ Len(calls[k].openai) = 1

\* the output of the fast provider differs from the cleaned input when
\* case is ignored and has more than 10 characters
FastOutputValid(c) ==
  /\ toLowerCase(translateWithLibreTranslate(c.libre[1]).val) # toLowerCase(stripHtml(c.text))
  /\ Len(translateWithLibreTranslate(c.libre[1]).val) > 10

\* C20: when the fast provider has answered with an output, the call
\* returns that output unchanged without invoking the fallback provider
\* if and only if the output differs from the cleaned input, case
\* ignored, and has more than 10 characters; otherwise the fallback
\* provider is invoked.
C20_FastValidation ==
  \A k \in 1..Len(calls) :
    (Len(calls[k].libre) = 1 /\ translateWithLibreTranslate(calls[k].libre[1]).ok) =>
      IF FastOutputValid(calls[k])
        THEN /\ calls[k].pc = "done"
             /\ calls[k].line = 147
             /\ calls[k].result = translateWithLibreTranslate(calls[k].libre[1]).val
             /\ calls[k].openai = << >>
        ELSE /\ calls[k].line # 147
             /\ calls[k].pc = "openai" \/ Len(calls[k].openai) = 1

\* C20 witness: an output of the fast provider was returned as it is, and
\* the fallback provider was not invoked
C20_Witness ==
  \E k \in 1..Len(calls) :
    /\ calls[k].pc = "done"
    /\ calls[k].line = 147
    /\ calls[k].libre # << >>
    /\ calls[k].result = calls[k].libre[1].field.s
    /\ calls[k].result # stripHtml(calls[k].text)
    /\ calls[k].openai = << >>

\* the fast provider answered with a status that is not a success status,
\* or with a body whose translatedText is absent, or blank
FastAnswerUnusable(r) ==
  \/ ~r.httpOk
  \/ r.field.t = "undefined"
  \/ r.field.t = "string" /\ trim(r.field.s) = ""

\* C21 as stated: translateWithLibreTranslate raises whenever the status is
\* not a success status or translatedText is absent or blank, and returns
\* translatedText unchanged in every other case.
C21_FailsOnlyWhenUnusable ==
  \A k \in 1..Len(calls) :
    Len(calls[k].libre) = 1 =>
      IF FastAnswerUnusable(calls[k].libre[1])
        THEN /\ calls[k].line # 147
             /\ calls[k].pc = "openai" \/ Len(calls[k].openai) = 1
        ELSE /\ translateWithLibreTranslate(calls[k].libre[1]).ok
             /\ JStr(translateWithLibreTranslate(calls[k].libre[1]).val) = calls[k].libre[1].field
             /\ FastOutputValid(calls[k]) => calls[k].result = calls[k].libre[1].field.s

\* C21 amended: translateWithLibreTranslate raises whenever the request
\* fails, the status is not a success status, the body is not JSON, or
\* translatedText is absent, not a string, or blank; in every other case it
\* returns translatedText unchanged (and a valid one is the call's result).
C21_FailsWhenUnusableOrNotText ==
  \A k \in 1..Len(calls) :
    Len(calls[k].libre) = 1 =>
      IF \/ FastAnswerUnusable(calls[k].libre[1])
         \/ ~calls[k].libre[1].net
         \/ ~calls[k].libre[1].json
         \/ calls[k].libre[1].field.t # "string"
        THEN /\ ~translateWithLibreTranslate(calls[k].libre[1]).ok
             /\ calls[k].line # 147
             /\ calls[k].pc = "openai" \/ Len(calls[k].openai) = 1
        ELSE /\ translateWithLibreTranslate(calls[k].libre[1]).ok
             /\ translateWithLibreTranslate(calls[k].libre[1]).val = calls[k].libre[1].field.s
             /\ FastOutputValid(calls[k]) => calls[k].result = calls[k].libre[1].field.s

\* C21 witness: a success status with a translatedText that is not text:
\* the call went on to the fallback provider
C21_Witness ==
  \E k \in 1..Len(calls) :
    /\ Len(calls[k].libre) = 1
    /\ calls[k].libre[1].httpOk
    /\ calls[k].libre[1].field.t = "number"
    /\ Len(calls[k].openai) = 1

\* C22: an attempt of the summarization completion that returns no content
\* is a failed attempt like one that raises: the call goes on with an empty
\* result only when the three attempts, and the waits between them, have
\* been made.
C22_EmptyRetried ==
  (op \in {"summarizeAndTranslate", "summarizeInEnglish"} /\ pc = "parse" /\ result = "") =>
    Len(sent) = SummaryRetries /\ Len(waits) = SummaryRetries - 1

\* the completion has answered and the answer has been through the try of
\* line 291 / 429
AfterParse ==
  /\ op \in {"summarizeAndTranslate", "summarizeInEnglish"}
  /\ Len(sent) >= 1
  /\ pc \in {"fallback", "translating", "done"}

\* C23: when the provider's text, code fences removed, is not valid JSON:
\* if the raw text has more than 10 characters the call resolves with
\* {summary: the raw text as it is, sentiment: 'neutral'}; otherwise control
\* goes to the top-level fallback, and the parse failure never reaches the
\* caller.
C23_ParseFailure ==
  (AfterParse /\ ~JSONParse(stripFences(result)).ok) =>
    IF Len(result) > 10
      THEN /\ pc = "done"
           /\ status = "resolved"
           /\ path = IF IsTr THEN 338 ELSE 442
           /\ retSummary = [summary |-> JStr(result), sentiment |-> "neutral"]
      ELSE /\ status # "rejected"
           /\ IF IsTr
                THEN pc \in {"fallback", "translating"} \/ path \in {359, 363, 368}
                ELSE path = 449 /\ retSummary = [summary |-> JStr(title), sentiment |-> "neutral"]

\* C23 witness: a raw text that is not JSON was returned as the summary
C23_Witness ==
  /\ Summarized
  /\ path \in {338, 442}
  /\ ~JSONParse(stripFences(result)).ok
  /\ retSummary.summary = JStr(result)
  /\ retSummary.sentiment = "neutral"

\* the summary the fallback of lines 342-370 is to return for the
\* translated title tt of the title ttl
TitleSummary(tt, ttl) ==
  IF /\ tt # ""
     /\ \/ toLowerCase(tt) # toLowerCase(ttl)
        \/ Len(tt) > 8
        \/ \E k \in 1..Len(tt) : Ch(tt, k) \in TurkishChars
    THEN JStr(tt) ELSE JStr(ttl)

\* C24: when summarizeAndTranslate has returned without a summary of the
\* completion (the summarization path is exhausted), it has translated the
\* title alone with one translateToTurkish call; the summary is the
\* translated title if that is non-empty and differs from the title (case
\* ignored), or is longer than 8 characters, or has a Turkish letter, and
\* the title itself otherwise; the sentiment is 'neutral'.
C24_TitleFallback ==
  (Summarized /\ IsTr /\ path \notin {245, 330, 338}) =>
    /\ status = "resolved"
    /\ Len(calls) = 1
    /\ calls[1].text = title
    /\ calls[1].pc = "done"
    /\ retSummary.summary = TitleSummary(calls[1].result, title)
    /\ retSummary.sentiment = "neutral"

\* C24 witness: the translated title was empty and the title was returned
C24_Witness ==
  /\ Summarized
  /\ IsTr
  /\ path = 363
  /\ calls[1].result = ""
  /\ title # ""
  /\ retSummary = [summary |-> JStr(title), sentiment |-> "neutral"]

\* lines 378-451 as a function of the title, the content and the text res
\* of the completion ("" when no attempt gave one)
summarizeInEnglishValue(ttl, c, res) ==
  IF IsBlank(c) THEN [summary |-> JStr(ttl), sentiment |-> "neutral"]
  ELSE IF ~parseSummaryEn(res, ttl).threw
    THEN [summary |-> parseSummaryEn(res, ttl).summary,
          sentiment |-> parseSummaryEn(res, ttl).sentiment]
  ELSE IF res # "" /\ Len(res) > MinSummaryLength
    THEN [summary |-> JStr(res), sentiment |-> "neutral"]
  ELSE [summary |-> JStr(ttl), sentiment |-> "neutral"]

\* the return statement of summarizeInEnglish on the tier of a return
\* statement of summarizeAndTranslate
EnglishTier(line) ==
  CASE line = 245 -> 387
    [] line = 330 -> 434
    [] line = 338 -> 442
    [] OTHER -> 449

\* the scrub of lines 299-328 has nothing to change in the value v
ScrubLeaves(v) == v.t = "string" /\ scrubSummary(v.s) = v.s

\* the parsed answer p has no summary for the scrub, or one it leaves as it is
ScrubIdleOn(p, ttl) ==
  \/ ~p.ok
  \/ p.v.t = "null"
  \/ ScrubLeaves(OrElseValue(GetProp(p.v, "summary"), JStr(ttl)))

\* C25: for the same title, body and provider outcomes, whenever the scrub
\* leaves the summary unchanged, summarizeAndTranslate returns what
\* summarizeInEnglish returns, on the same tier, the top-level fallback
\* included.
C25_VariantsAgree ==
  (Summarized /\ IsTr /\ ScrubIdleOn(JSONParse(stripFences(result)), title)) =>
    /\ retSummary = summarizeInEnglishValue(title, content, result)
    /\ EnglishTier(path) = IF IsBlank(content) THEN 387
                           ELSE IF ~parseSummaryEn(result, title).threw THEN 434
                           ELSE IF result # "" /\ Len(result) > MinSummaryLength THEN 442
                           ELSE 449

\* C26: on the parsing path of stripHtml, when the extracted text has a
\* pipe, the output is made from the segment before the first pipe alone
\* and has no pipe, also when the text starts with a pipe;
\* "Bitcoin hits $50k | via @cryptoNews" gives "Bitcoin hits $50k".
C26_PipeTruncated ==
  (op = "stripHtml" /\ pc = "once" /\ ~cheerioThrows
     /\ IndexFrom(cheerioText(text), "|", 1) > 0) =>
    /\ IndexFrom(retText, "|", 1) = 0
    /\ retText = dropShort(squeeze(removePhrases(removeParams(removeUrls(
                   splitPipeHead(cheerioText(text)))))))
    /\ text = "Bitcoin hits $50k | via @cryptoNews" => retText = "Bitcoin hits $50k"

\* C27: whichever path stripHtml takes, the string it returns is empty or
\* has at least 10 characters.
C27_EmptyOrLong ==
  (op = "stripHtml" /\ pc = "once") => retText = "" \/ Len(retText) >= 10

\* C28: when cheerio raises, stripHtml returns the input with its tags
\* replaced, cut at the first pipe, its white space collapsed and its ends
\* trimmed, whether or not the segment before the pipe is empty.
C28_FallbackNormalised ==
  (op = "stripHtml" /\ pc = "once" /\ cheerioThrows) =>
    retText = trim(ReplaceAll(splitPipeHead(ReplaceAll(text, MTag, " ")), MSpaces, " "))

\* the calls of fn by invocation t that raised
Raised(t) == { j \in 1..Len(t.outcomes) : t.outcomes[j] = "raise" }

\* C29: the counter, the delays and the last error of a retryWithBackoff
\* invocation are its own: whatever the other invocations do, invocation k
\* calls fn once more after each failure until maxRetries calls are made,
\* waits initialDelay * 2^j after failure j of its own, records only errors
\* of its own fn, rejects only after maxRetries failures of its own and
\* with its own last error, and resolves with the value of its own fn.
C29_PerInvocation ==
  \A k \in 1..Len(tasks) :
    /\ Len(tasks[k].outcomes) <= tasks[k].maxRetries
    /\ Cardinality(Raised(tasks[k])) =
         IF tasks[k].status = "resolved" THEN Len(tasks[k].outcomes) - 1
                                         ELSE Len(tasks[k].outcomes)
    /\ tasks[k].pc = "call" => tasks[k].i = Len(tasks[k].outcomes)
    /\ Len(tasks[k].waits) =
         IF Cardinality(Raised(tasks[k])) < tasks[k].maxRetries
           THEN Cardinality(Raised(tasks[k])) ELSE tasks[k].maxRetries - 1
    /\ \A j \in 1..Len(tasks[k].waits) :
         tasks[k].waits[j] = tasks[k].initialDelay * 2 ^ (j - 1)
    /\ tasks[k].lastError =
         IF Raised(tasks[k]) = {} THEN NoError
         ELSE [by |-> k, attempt |-> Cardinality(Raised(tasks[k])) - 1]
    /\ tasks[k].status = "rejected" <=>
         Cardinality(Raised(tasks[k])) = tasks[k].maxRetries
    /\ tasks[k].status = "resolved" => tasks[k].value = [by |-> k]

\* C29 witness: an invocation under the (3, 1000) policy was rejected with
\* its third error after its waits of 1000 and 2000, while an invocation
\* under the (2, 500) policy that started with it resolved after one
\* failure and one wait of 500
C29_Witness ==
  /\ op = "concurrent"
  /\ Len(tasks) >= 2
  /\ tasks[1].status = "rejected"
  /\ tasks[1].waits = << 1000, 2000 >>
  /\ tasks[1].lastError = [by |-> 1, attempt |-> 2]
  /\ tasks[2].status = "resolved"
  /\ tasks[2].waits = << 500 >>
  /\ tasks[2].lastError = [by |-> 2, attempt |-> 0]

\* the provider calls and waits of a summarizeAndTranslate call so far are
\* within their bounds
WithinCallBudget ==
  /\ Len(sent) <= 3
  /\ Len(calls) <= 1
  /\ \A k \in 1..Len(calls) :
       /\ Len(calls[k].libre) <= 1
       /\ Len(calls[k].openai) <= 1
       /\ ~calls[k].rejected
       /\ calls[k].text = title
  /\ retry.site = "retry347" => retry.i = 0 /\ retry.lastError = ""
  /\ \A j \in 1..Len(waits) : waits[j] \in {1000, 2000}
  /\ Len(waits) <= 2
  /\ path # 368

\* how far a summarize call has got: its position, then the completions,
\* waits and loop iterations of its retry, then the steps of its
\* translateToTurkish call
Stage(p) ==
  CASE p = "init" -> 0
    [] p \in {"attempt", "backoff", "exhausted"} -> 1
    [] p = "parse" -> 2
    [] p = "fallback" -> 3
    [] p = "translating" -> 4
    [] OTHER -> 5

CallStage(p) ==
  CASE p = "start" -> 0
    [] p = "libre" -> 1
    [] p = "openai" -> 2
    [] OTHER -> 3

Progress ==
  100 * Stage(pc) + 10 * (Len(sent) + Len(waits))
    + (IF pc \in {"attempt", "backoff", "exhausted"} THEN retry.i ELSE 0)
    + (IF calls = << >> THEN 0 ELSE 1 + CallStage(calls[1].pc))

\* C30: every summarizeAndTranslate call ends: each step takes it further
\* and it makes at most 3 summarization completions, then at most one
\* fast-provider call and one translation completion for the title; the
\* wrapper of line 347 never makes a second attempt nor waits its 500 ms,
\* and no summarization completion is requested once the title
\* translation has started.
C30_BoundedTermination ==
  /\ [](IsTr => WithinCallBudget /\ Progress <= 600)
  /\ [][IsTr => Progress' > Progress]_vars
  /\ [][(IsTr /\ calls # << >>) => sent' = sent]_vars

\* C30 witness: a call that returned after three completions, one
\* fast-provider call and one translation completion, with the two waits
\* of the summarization retry only
C30_Witness ==
  /\ Summarized
  /\ IsTr
  /\ Len(sent) = 3
  /\ waits = << 1000, 2000 >>
  /\ Len(calls) = 1
  /\ Len(calls[1].libre) = 1
  /\ Len(calls[1].openai) = 1
  /\ retry.site = "retry347"
  /\ retry.i = 0

(* ------------------------------------------------------------------ *)
(* mintNFT: order of the requests and the pre-checks                  *)
(* ------------------------------------------------------------------ *)

Logged(m, x) == \E i \in 1..Len(m.log) : m.log[i] = x

SaveOutcomes == { "save ok", "save not ok", "save error" }

\* every "mintNFT" entry of the log has a "save" and then its outcome before it
SaveAwaitedFirst(m) ==
  \A i \in 1..Len(m.log) :
    m.log[i] = "mintNFT" =>
      \E j \in 1..(i - 1) : \E j2 \in (j + 1)..(i - 1) :
        m.log[j] = "save" /\ m.log[j2] \in SaveOutcomes

\* C31: the metadata save request is issued and has settled before the
\* contract mintNFT transaction is sent; once the save has settled, with an
\* OK response, another response or a rejected fetch, the transaction has been
\* sent; and a call whose gas estimate failed goes on to the save and the
\* transaction.
C31_SaveThenTransaction ==
  \A k \in 1..Len(mints) :
    /\ SaveAwaitedFirst(mints[k])
    /\ (\E o \in SaveOutcomes : Logged(mints[k], o)) => Logged(mints[k], "mintNFT")
    /\ Logged(mints[k], "estimateGas failed") =>
         /\ Logged(mints[k], "save")
         /\ mints[k].pc # "save" => Logged(mints[k], "mintNFT")

\* a call whose gas estimate failed and whose save request was rejected has
\* sent the transaction and returned success
C31_Witness ==
  \E k \in 1..Len(mints) :
    /\ Logged(mints[k], "estimateGas failed")
    /\ Logged(mints[k], "save error")
    /\ Logged(mints[k], "mintNFT")
    /\ mints[k].pc = "done"
    /\ mints[k].result.success

\* a call whose save request got a response that is not OK has sent the
\* transaction
C31_WitnessNotOk ==
  \E k \in 1..Len(mints) :
    Logged(mints[k], "save not ok") /\ mints[k].pc = "wait"

\* the pre-checks of lines 107-142 as the call m saw them
OnBase(m) == m.onBase \/ m.switched

PreChecksPassed(m) ==
  /\ OnBase(m)
  /\ m.balance >= MintPrice + EstimatedGas
  /\ m.code # ""
  /\ m.code # "0x"

\* the call ended on a pre-check: off Base with the switch refused, a balance
\* below the price plus the gas reserve, or no code at the contract address
PreCheckFailed(m) ==
  /\ m.pc = "done"
  /\ \/ ~OnBase(m)
     \/ m.balance >= 0 /\ m.balance < MintPrice + EstimatedGas
     \/ m.code = "0x"

\* C32: a call issues the metadata save and sends the transaction only after
\* it saw the wallet on Base Mainnet (at once or after a switch), a balance of
\* at least the mint price plus 0.001 ETH and contract code other than '0x';
\* a call that ended on a failed pre-check returned {success: false, error},
\* with an error text, and made neither request.
C32_PreChecksGuard ==
  \A k \in 1..Len(mints) :
    /\ (Logged(mints[k], "save") \/ Logged(mints[k], "mintNFT")
         \/ Logged(mints[k], "estimateGas")) => PreChecksPassed(mints[k])
    /\ PreCheckFailed(mints[k]) =>
         /\ ~mints[k].result.success
         /\ mints[k].result.error # ""
         /\ mints[k].log = << >>

\* a call that saw a balance one unit below the requirement ended with
\* {success: false, error}
C32_Witness ==
  \E k \in 1..Len(mints) :
    /\ mints[k].balance = MintPrice + EstimatedGas - 1
    /\ mints[k].pc = "done"
    /\ ~mints[k].result.success
    /\ mints[k].result.error = "balance too low"

\* a call that switched to Base and saw exactly the required balance sent the
\* transaction
C32_WitnessPassed ==
  \E k \in 1..Len(mints) :
    /\ mints[k].switched
    /\ mints[k].balance = MintPrice + EstimatedGas
    /\ Logged(mints[k], "mintNFT")

(* ------------------------------------------------------------------ *)
(* useNFTMint: the flags of the hook                                  *)
(* ------------------------------------------------------------------ *)

InFlight(k) == mints[k].pc # "done"

\* C33: isMinting is true exactly when at least one mintNFT call of the hook
\* instance is in flight, also when calls overlap and one of them ends while
\* another is still waiting for the wallet or the chain.
C33_IsMintingTracksCalls ==
  isMinting <=> \E k \in 1..Len(mints) : InFlight(k)

\* one call has ended, another is still in flight, and isMinting is false
C33_FlagDroppedEarly ==
  /\ ~isMinting
  /\ \E k \in 1..Len(mints) : ~InFlight(k)
  /\ \E k \in 1..Len(mints) : InFlight(k)

ConnectInFlight == \E k \in 1..Len(connects) : connects[k].pc \notin {"resolved", "rejected"}

\* C34: a connectWallet call that failed has rejected with isConnecting reset
\* to false and without having changed account; account is given a connected
\* address only by a call that completes or by an accountsChanged event.
C34_FailureLeavesAccount ==
  \A k \in 1..Len(connects) :
    connects[k].pc = "rejected" =>
      /\ ~connects[k].changed
      /\ ~ConnectInFlight => ~isConnecting

\* the only call was made with no account connected, it was rejected, and
\* account holds an address
C34_AccountSetByFailedCall ==
  /\ Len(connects) = 1
  /\ connects[1].pc = "rejected"
  /\ connects[1].before = ""
  /\ account # ""
  /\ ~isConnecting
  /\ listeners = 0

(* ------------------------------------------------------------------ *)
(* Metadata store                                                     *)
(* ------------------------------------------------------------------ *)

\* the metadata of the most recent of the first n saves whose tokenId is id
RECURSIVE LastSaved(_, _)
LastSaved(n, id) ==
  IF n = 0 THEN NoMetadata
  ELSE IF saved[n].tokenId = id THEN saved[n]
  ELSE LastSaved(n - 1, id)

StoreAnswersLastSaved ==
  \A id \in RequestedIds :
    /\ getMetadata(metadataStore, id) = LastSaved(Len(saved), id)
    /\ hasMetadata(metadataStore, id) <=> getMetadata(metadataStore, id) # NoMetadata

RouteAnswers404OnNull ==
  response.status # 0 =>
    /\ response.status = 404 <=> LastSaved(response.after, response.tokenId) = NoMetadata
    /\ response.status # 404 =>
         /\ response.status = 200
         /\ response.description = LastSaved(response.after, response.tokenId).description

SaveLeavesOthers ==
  \A id \in RequestedIds :
    (Len(saved') = Len(saved) + 1 /\ saved'[Len(saved')].tokenId # id) =>
      /\ getMetadata(metadataStore', id) = getMetadata(metadataStore, id)
      /\ hasMetadata(metadataStore', id) <=> hasMetadata(metadataStore, id)

\* C35: after any sequence of saveMetadata calls getMetadata(id) is the
\* metadata of the most recent save whose tokenId is id, and null if there was
\* none; hasMetadata(id) is true exactly when getMetadata(id) is not null; a
\* save for one tokenId leaves what every other tokenId answers unchanged; and
\* the GET route answers 404 exactly when getMetadata gave null for the
\* requested tokenId, and otherwise 200 with the stored metadata.
C35_StoreAndRoute ==
  /\ [](StoreAnswersLastSaved /\ RouteAnswers404OnNull)
  /\ [][SaveLeavesOthers]_vars

\* tokenId "1" was saved twice with different descriptions and "2" in between; the
\* store answers the later description for "1", and a request for "3" got 404
C35_Witness ==
  /\ Len(saved) = 3
  /\ saved[1].tokenId = "1"
  /\ saved[2].tokenId = "2"
  /\ saved[3].tokenId = "1"
  /\ saved[3].description # saved[1].description
  /\ getMetadata(metadataStore, "1") = saved[3]
  /\ getMetadata(metadataStore, "2") = saved[2]
  /\ response.status = 404
  /\ response.tokenId = "3"

====
